---- MODULE Spec2Model ----
(***************************************************************************)
(* Package drop-off tracker (src/app.py, src/app2.py): the record store,   *)
(* the display-zone date arithmetic, the dashboard day-bucketing and the   *)
(* date-range / receipt / admin queries.                                   *)
(*                                                                         *)
(* Time.  A naive datetime is [s, us]: whole seconds since                 *)
(* 2024-01-01 00:00:00 and microseconds 0..999999.  An aware datetime is   *)
(* [s, us, off]: the wall-clock reading and its utcoffset in seconds, as   *)
(* Python keeps it.  The store keeps naive UTC values.                     *)
(***************************************************************************)
EXTENDS Integers, Sequences, FiniteSets, TLC

VARIABLES program, users, trackings, now, request, response

vars == <<program, users, trackings, now, request, response>>

\* Python's None, where a string is expected (a form value that is absent) and
\* where a datetime is expected
None == <<"None">>
NoDateTime == [none |-> TRUE]

-----------------------------------------------------------------------------
(* datetime: calendar arithmetic                                           *)

MicrosPerSecond == 1000000
SecondsPerDay == 86400
SecondsPerHour == 3600

IsLeap(y) == (y % 4 = 0) /\ ((y % 100 # 0) \/ (y % 400 = 0))

DaysInMonth(y, m) ==
    IF m = 2 THEN (IF IsLeap(y) THEN 29 ELSE 28)
    ELSE IF m \in {4, 6, 9, 11} THEN 30 ELSE 31

DaysBeforeYear(y) ==
    LET p == y - 1 IN p * 365 + (p \div 4) - (p \div 100) + (p \div 400)

\* days of a common year before the first of each month
DAYS_BEFORE_MONTH == <<0, 31, 59, 90, 120, 151, 181, 212, 243, 273, 304, 334>>

DaysBeforeMonth(y, m) == DAYS_BEFORE_MONTH[m] + (IF m > 2 /\ IsLeap(y) THEN 1 ELSE 0)

\* date.toordinal()
Ymd2Ord(y, m, d) == DaysBeforeYear(y) + DaysBeforeMonth(y, m) + d

\* the model's epoch, 2024-01-01, keeps every second count inside TLC's integers
EpochOrd == Ymd2Ord(2024, 1, 1)

\* a date is [y, m, d]; DayNo is its distance in days from 2024-01-01
DayNo(date) == Ymd2Ord(date.y, date.m, date.d) - EpochOrd

\* date.fromordinal(), for the years the zone table below covers
Years == 2023 .. 2025

DateOfDayNo(n) ==
    LET ord == n + EpochOrd
        y == CHOOSE y \in Years : Ymd2Ord(y, 1, 1) <= ord /\ ord < Ymd2Ord(y + 1, 1, 1)
        m == CHOOSE m \in 1..12 :
                /\ Ymd2Ord(y, m, 1) <= ord
                /\ ord < Ymd2Ord(y, m, 1) + DaysInMonth(y, m)
    IN [y |-> y, m |-> m, d |-> ord - Ymd2Ord(y, m, 1) + 1]

\* datetime(y, m, d, hh, mm, ss, us), naive
DateTime(y, m, d, hh, mm, ss, us) ==
    [s  |-> DayNo([y |-> y, m |-> m, d |-> d]) * SecondsPerDay
            + hh * SecondsPerHour + mm * 60 + ss,
     us |-> us]

\* naive.date()
DateOf(dt) == DateOfDayNo(dt.s \div SecondsPerDay)

\* datetime.combine(date, datetime.min.time()): 00:00:00.000000
CombineMin(date) == DateTime(date.y, date.m, date.d, 0, 0, 0, 0)

\* datetime.combine(date, datetime.max.time()): 23:59:59.999999
CombineMax(date) == DateTime(date.y, date.m, date.d, 23, 59, 59, MicrosPerSecond - 1)

\* dt + timedelta(days, seconds, microseconds); the wall reading moves, the
\* tzinfo (if any) is kept
PlusTimedelta(dt, days, seconds, micros) ==
    LET u == dt.us + micros
        carry == u \div MicrosPerSecond
    IN [dt EXCEPT !.s = dt.s + days * SecondsPerDay + seconds + carry,
                  !.us = u % MicrosPerSecond]

\* naive.replace(hour=hh, minute=mm, second=ss, microsecond=us)
ReplaceTime(dt, hh, mm, ss, us) ==
    [dt EXCEPT !.s = (dt.s \div SecondsPerDay) * SecondsPerDay
                     + hh * SecondsPerHour + mm * 60 + ss,
               !.us = us]

\* order of two naive values (also of two UTC instants)
Before(a, b) == (a.s < b.s) \/ (a.s = b.s /\ a.us < b.us)
AtOrBefore(a, b) == (a.s < b.s) \/ (a.s = b.s /\ a.us <= b.us)

-----------------------------------------------------------------------------
(* pytz: DISPLAY_TIMEZONE = America/Los_Angeles                            *)

PST == -8 * SecondsPerHour
PDT == -7 * SecondsPerHour

\* The zone's UTC transition instants around 2024 (tzdata): daylight time
\* runs from 2024-03-10 10:00:00Z to 2024-11-03 09:00:00Z.  The table is exact
\* for instants from 2023-11-05 09:00Z up to 2025-03-09 10:00Z.
DstStartUtc == DateTime(2024, 3, 10, 10, 0, 0, 0)
DstEndUtc == DateTime(2024, 11, 3, 9, 0, 0, 0)

\* the zone's utcoffset at a UTC instant (tzinfo.fromutc)
UtcOffsetAt(utc) ==
    IF AtOrBefore(DstStartUtc, utc) /\ Before(utc, DstEndUtc) THEN PDT ELSE PST

\* aware.astimezone(DISPLAY_TIMEZONE), from a naive UTC reading
FromUtc(utc) ==
    LET off == UtcOffsetAt(utc) IN [s |-> utc.s + off, us |-> utc.us, off |-> off]

\* the UTC instant of an aware value, as a naive UTC reading
UtcOf(aware) == [s |-> aware.s - aware.off, us |-> aware.us]

\* aware.astimezone(timezone.utc)
AsUtc(aware) == [s |-> aware.s - aware.off, us |-> aware.us, off |-> 0]

\* aware.astimezone(DISPLAY_TIMEZONE)
AsDisplay(aware) == FromUtc(UtcOf(aware))

\* naive.replace(tzinfo=timezone.utc)
ReplaceUtc(naive) == [s |-> naive.s, us |-> naive.us, off |-> 0]

\* DISPLAY_TIMEZONE.localize(naive), is_dst=False: the offsets under which the
\* wall reading exists; an ambiguous reading takes standard time, and so does
\* a reading inside the spring-forward gap
localize(naive) ==
    LET fits == {off \in {PST, PDT} :
                    UtcOffsetAt([s |-> naive.s - off, us |-> naive.us]) = off}
        off == IF fits = {PDT} THEN PDT ELSE PST
    IN [s |-> naive.s, us |-> naive.us, off |-> off]

\* aware.date(): the date of the wall reading
LocalDate(aware) == DateOf(aware)

\* comparison of two aware values: by wall reading when both carry the same
\* tzinfo, by UTC instant otherwise
AwareAtOrBefore(a, b) ==
    IF a.off = b.off THEN AtOrBefore(a, b) ELSE AtOrBefore(UtcOf(a), UtcOf(b))
AwareBefore(a, b) ==
    IF a.off = b.off THEN Before(a, b) ELSE Before(UtcOf(a), UtcOf(b))

-----------------------------------------------------------------------------
(* Strings are sequences of one-character strings.                         *)

DigitChars == <<"0", "1", "2", "3", "4", "5", "6", "7", "8", "9">>

IsDigit(c) == \E i \in 1..10 : DigitChars[i] = c

DigitVal(c) == (CHOOSE i \in 1..10 : DigitChars[i] = c) - 1

IsDigits(str) == \A i \in 1..Len(str) : IsDigit(str[i])

RECURSIVE Num(_)
Num(str) ==
    IF str = <<>> THEN 0
    ELSE Num(SubSeq(str, 1, Len(str) - 1)) * 10 + DigitVal(str[Len(str)])

\* zero-padded decimal of n in w characters
RECURSIVE Pad(_, _)
Pad(n, w) == IF w = 0 THEN <<>> ELSE Append(Pad(n \div 10, w - 1), DigitChars[(n % 10) + 1])

ValueError == [error |-> "ValueError"]

\* %m: 1[0-2]|0[1-9]|[1-9]
MonthField(str) == Len(str) \in {1, 2} /\ IsDigits(str) /\ Num(str) \in 1..12

\* %d: 3[01]|[12]\d|0[1-9]|[1-9]| [1-9]
DayField(str) ==
    \/ Len(str) \in {1, 2} /\ IsDigits(str) /\ Num(str) \in 1..31
    \/ Len(str) = 2 /\ str[1] = " " /\ IsDigit(str[2]) /\ DigitVal(str[2]) >= 1

DayFieldVal(str) == IF str[1] = " " THEN DigitVal(str[2]) ELSE Num(str)

\* variant: a parser that takes any four digits, a dash, two characters, a
\* dash and two characters for a date, whatever day and month they name
strptime_unchecked(str) ==
    IF Len(str) = 10 /\ IsDigits(SubSeq(str, 1, 4)) /\ IsDigits(SubSeq(str, 6, 7))
       /\ IsDigits(SubSeq(str, 9, 10)) /\ Num(SubSeq(str, 6, 7)) \in 1..12
    THEN DateTime(Num(SubSeq(str, 1, 4)), Num(SubSeq(str, 6, 7)), Num(SubSeq(str, 9, 10)),
                  0, 0, 0, 0)
    ELSE ValueError

\* datetime.strptime(str, '%Y-%m-%d'): the whole string must match
\* \d\d\d\d-<month>-<day> and name a day of the calendar; the result is the
\* naive midnight of that day; here its year, month and day
strptime_ymd(str) ==
    LET fields == {f \in {1, 2} \X {1, 2} :
                     /\ Len(str) = 6 + f[1] + f[2]
                     /\ IsDigits(SubSeq(str, 1, 4))
                     /\ str[5] = "-"
                     /\ MonthField(SubSeq(str, 6, 5 + f[1]))
                     /\ str[6 + f[1]] = "-"
                     /\ DayField(SubSeq(str, 7 + f[1], 6 + f[1] + f[2]))}
    IN IF fields = {} THEN ValueError
       ELSE LET f == CHOOSE f \in fields : TRUE
                y == Num(SubSeq(str, 1, 4))
                m == Num(SubSeq(str, 6, 5 + f[1]))
                d == DayFieldVal(SubSeq(str, 7 + f[1], 6 + f[1] + f[2]))
            IN IF y < 1 \/ d > DaysInMonth(y, m) THEN ValueError
               ELSE [y |-> y, m |-> m, d |-> d]

strptime(str) ==
    LET ymd == strptime_ymd(str)
    IN IF ymd = ValueError THEN ValueError
       ELSE DateTime(ymd.y, ymd.m, ymd.d, 0, 0, 0, 0)

\* pytz's localize(dt) starts from dt - timedelta(days=1) and
\* dt + timedelta(days=1); on the first and on the last day datetime can
\* hold, one of the two leaves its range and raises OverflowError
OverflowError == [error |-> "OverflowError"]

localize_overflows(ymd) ==
    \/ ymd.y = 1 /\ ymd.m = 1 /\ ymd.d = 1
    \/ ymd.y = 9999 /\ ymd.m = 12 /\ ymd.d = 31

\* date.strftime('%Y-%m-%d')
strftime_date(date) == Pad(date.y, 4) \o <<"-">> \o Pad(date.m, 2) \o <<"-">> \o Pad(date.d, 2)

\* aware.strftime('%Y-%m-%d %I:%M %p %Z'): the fields the text shows; seconds
\* and microseconds are not printed
strftime_full(aware) ==
    LET sod == aware.s % SecondsPerDay
        hh == sod \div SecondsPerHour
    IN [date |-> strftime_date(DateOf(aware)),
        I |-> IF hh % 12 = 0 THEN 12 ELSE hh % 12,
        M |-> (sod % SecondsPerHour) \div 60,
        p |-> IF hh < 12 THEN "AM" ELSE "PM",
        Z |-> IF aware.off = PDT THEN "PDT" ELSE IF aware.off = PST THEN "PST" ELSE "UTC"]

-----------------------------------------------------------------------------
(* UTCDateTime and the record store                                        *)

IsNaive(value) == "off" \notin DOMAIN value

\* variant: an aware value bound with its wall reading as it stands
bind_wall_reading(value) ==
    IF value = NoDateTime THEN NoDateTime ELSE ReplaceUtc(value)

\* UTCDateTime.process_bind_param (the same in both programs)
process_bind_param(value) ==
    IF value = NoDateTime THEN NoDateTime
    ELSE IF IsNaive(value) THEN ReplaceUtc(value) ELSE AsUtc(value)

\* the DateTime column under the decorator keeps the reading and drops tzinfo
ColumnValue(value) ==
    LET bound == process_bind_param(value) IN [s |-> bound.s, us |-> bound.us]

\* app.py UTCDateTime.process_result_value: timezone-aware UTC
process_result_value(value) ==
    IF value = NoDateTime THEN NoDateTime
    ELSE IF IsNaive(value) THEN ReplaceUtc(value) ELSE AsUtc(value)

\* app2.py UTCDateTime.process_result_value: aware, in DISPLAY_TIMEZONE
app2_process_result_value(value) ==
    IF value = NoDateTime THEN NoDateTime
    ELSE AsDisplay(IF IsNaive(value) THEN ReplaceUtc(value) ELSE value)

\* a Tracking object as the running program loads it from its row
LoadTracking(row) ==
    [row EXCEPT !.timestamp = IF program = "app2"
                              THEN app2_process_result_value(row.timestamp)
                              ELSE process_result_value(row.timestamp)]

\* datetime.now(timezone.utc)
UtcNow == ReplaceUtc(now)

Rows == {trackings[i] : i \in 1..Len(trackings)}

RECURSIVE MaxOf(_)
MaxOf(S) == IF S = {} THEN 0
            ELSE LET x == CHOOSE x \in S : TRUE
                     m == MaxOf(S \ {x})
                 IN IF x > m THEN x ELSE m

\* INTEGER PRIMARY KEY: one more than the largest id in the table
NewTrackingId == MaxOf({r.id : r \in Rows}) + 1

\* the session cookie's user, resolved by load_user; Anonymous without one
Anonymous == 0
Authenticated == DOMAIN users

-----------------------------------------------------------------------------
(* The inputs of the model                                                 *)

\* the most rows the tracking table holds
MaxTrackings == 2

\* the largest id a tracking row is given (ids of deleted rows at the end of
\* the table are given again, others are not)
MaxTrackingId == 3

\* readings of the server clock, one sequence per observed period:
\*   around the 23-hour local day 2024-03-10 (08:00:00Z to 2024-03-11 07:00:00Z),
\*   inside 2024-03-10 and in the last second of 2024-03-11,
\*   late in the 25-hour local day 2024-11-03 and at the midnight ending it,
\*   one second either side of the local midnight 2024-06-01 07:00:00Z
ClockSpringDay ==
    << DateTime(2024, 3, 10, 7, 59, 59, 999999), DateTime(2024, 3, 10, 8, 0, 0, 0),
       DateTime(2024, 3, 11, 6, 59, 59, 500000), DateTime(2024, 3, 11, 7, 0, 0, 500000) >>
ClockSpringNext ==
    << DateTime(2024, 3, 10, 9, 30, 0, 0), DateTime(2024, 3, 12, 6, 59, 59, 500000) >>
ClockFall ==
    << DateTime(2024, 11, 4, 7, 30, 0, 0), DateTime(2024, 11, 4, 8, 0, 0, 0) >>
ClockJune ==
    << DateTime(2024, 6, 1, 6, 59, 59, 0), DateTime(2024, 6, 1, 7, 0, 1, 0) >>
Clocks == {ClockSpringDay, ClockSpringNext, ClockFall, ClockJune}

TrackingInputs == { <<"7", "0", "1">>, <<"7", "0", "2">> }

InitUsers ==
    (1 :> [phone_number |-> <<"5", "1">>, is_admin |-> TRUE]) @@
    (2 :> [phone_number |-> <<"5", "2">>, is_admin |-> FALSE])

InitUsers2 ==
    (1 :> [phone_number |-> <<"5", "1">>, email |-> "a@x"]) @@
    (2 :> [phone_number |-> <<"5", "2">>, email |-> "b@x"])

-----------------------------------------------------------------------------
(* Requests                                                                *)

Redirect(to, category) == [status |-> 302, location |-> to, flash |-> category]

\* Requests are served one at a time (spec section 5): a view runs when no
\* response is waiting to be sent, and builds the response in one step.
NoRequest == [route |-> "", user |-> Anonymous]
NoResponse == [status |-> 0]
Idle == request = NoRequest

\* the response goes out to the client
send_response ==
    /\ ~Idle
    /\ request' = NoRequest
    /\ response' = NoResponse
    /\ UNCHANGED <<program, users, trackings, now>>

\* a request's form or query value that is absent or empty
Missing(value) == value = None \/ value = <<>>

\* @login_required: a request without a session is sent to the login page
\* before the view runs
ProtectedRoutes ==
    {"dashboard", "add_tracking", "get_tracking_details", "email_receipt_dashboard",
     "download_pdf_dashboard", "get_dropoffs_in_range"}
    \cup (IF program = "app" THEN {"admin_dropoffs"} ELSE {"export_dropoffs_csv"})

LoginRequired(routes) ==
    /\ Idle
    /\ \E route \in routes :
        /\ request' = [route |-> route, user |-> Anonymous]
        /\ response' = Redirect("login", "info")
        /\ UNCHANGED <<program, users, trackings, now>>

login_required == LoginRequired(ProtectedRoutes)

\* the server clock moves to its next reading; a view reads the clock at most
\* once, so it is enough to let the clock move between requests
Tick ==
    /\ Idle
    /\ \E clock \in Clocks : \E i \in 1..(Len(clock) - 1) :
        /\ clock[i] = now
        /\ now' = clock[i + 1]
        /\ UNCHANGED <<program, users, trackings, request, response>>

\* variant: the query finds nothing
existing_tracking_none(user_id, tracking_number) == {}

\* Tracking.query.filter_by(user_id=..., tracking_number=...): the rows found
existing_tracking(user_id, tracking_number) ==
    {r \in Rows : r.user_id = user_id /\ r.tracking_number = tracking_number}

\* app.py add_tracking
add_tracking ==
    /\ program = "app"
    /\ Idle
    /\ \E cu \in Authenticated : \E tracking_number \in TrackingInputs \cup {None} :
        /\ request' = [route |-> "add_tracking", user |-> cu,
                       tracking_number |-> tracking_number]
        /\ IF Missing(tracking_number)
           THEN /\ response' = Redirect("dashboard", "danger")
                /\ UNCHANGED trackings
           ELSE IF existing_tracking(cu, tracking_number) # {}
           THEN /\ response' = Redirect("dashboard", "warning")
                /\ UNCHANGED trackings
           ELSE /\ Len(trackings) < MaxTrackings
                /\ NewTrackingId <= MaxTrackingId
                /\ trackings' = Append(trackings,
                       [id |-> NewTrackingId, user_id |-> cu,
                        tracking_number |-> tracking_number,
                        timestamp |-> ColumnValue(UtcNow)])
                /\ response' = Redirect("dashboard", "success")
    /\ UNCHANGED <<program, users, now>>

\* str.isdigit filter, then the last 12 digits
CleanedNumber(str) == SelectSeq(str, IsDigit)

StoredDigits == 12

Last12(str) ==
    IF Len(str) > StoredDigits THEN SubSeq(str, Len(str) - StoredDigits + 1, Len(str)) ELSE str

\* app2.py add_tracking, the form's value drawn from `inputs`
app2_AddTracking(inputs) ==
    /\ program = "app2"
    /\ Idle
    /\ \E cu \in Authenticated : \E tracking_number_input \in inputs \cup {None} :
        /\ request' = [route |-> "add_tracking", user |-> cu,
                       tracking_number |-> tracking_number_input]
        /\ IF Missing(tracking_number_input)
           THEN /\ response' = Redirect("dashboard", "danger")
                /\ UNCHANGED trackings
           ELSE LET final == Last12(CleanedNumber(tracking_number_input))
                IN IF \E r \in Rows : r.user_id = cu /\ r.tracking_number = final
                   THEN /\ response' = Redirect("dashboard", "warning")
                        /\ UNCHANGED trackings
                   ELSE /\ Len(trackings) < MaxTrackings
                        /\ NewTrackingId <= MaxTrackingId
                        /\ trackings' = Append(trackings,
                               [id |-> NewTrackingId, user_id |-> cu,
                                tracking_number |-> final,
                                timestamp |-> ColumnValue(UtcNow)])
                        /\ response' = Redirect("dashboard", "success")
    /\ UNCHANGED <<program, users, now>>

app2_add_tracking == app2_AddTracking(TrackingInputs)

-----------------------------------------------------------------------------
(* Queries                                                                 *)

\* a bound parameter compared with the timestamp column
Bound(value) == ColumnValue(value)

\* variant: the lower comparison made strict (timestamp > low)
TimestampGt(row, low) == Before(Bound(low), row.timestamp)

\* variant: the upper comparison left out
TimestampAny(row, high) == TRUE

\* Tracking.timestamp >= low, Tracking.timestamp <= high
TimestampGe(row, low) == AtOrBefore(Bound(low), row.timestamp)
TimestampLe(row, high) == AtOrBefore(row.timestamp, Bound(high))

\* the lists a query may return for the rows S under order_by(timestamp):
\* every row once, in timestamp order; rows with equal timestamps come in the
\* order the store happens to produce
Ascending(S) ==
    {q \in [1..Cardinality(S) -> S] :
        /\ \A i, j \in 1..Cardinality(S) : i < j => q[i] # q[j]
        /\ \A i, j \in 1..Cardinality(S) : i < j => AtOrBefore(q[i].timestamp, q[j].timestamp)}

Descending(S) ==
    {q \in [1..Cardinality(S) -> S] :
        /\ \A i, j \in 1..Cardinality(S) : i < j => q[i] # q[j]
        /\ \A i, j \in 1..Cardinality(S) : i < j => AtOrBefore(q[j].timestamp, q[i].timestamp)}

\* track.timestamp.astimezone(DISPLAY_TIMEZONE) of a loaded Tracking object
DisplayTimestamp(track) == AsDisplay(track.timestamp)

\* date strings a client sends: 2024-03-10 (23 hours), 2024-03-11,
\* 2024-11-03 (25 hours), or no value
D_0310 == <<"2", "0", "2", "4", "-", "0", "3", "-", "1", "0">>
D_0311 == <<"2", "0", "2", "4", "-", "0", "3", "-", "1", "1">>
D_1103 == <<"2", "0", "2", "4", "-", "1", "1", "-", "0", "3">>
DateInputs == {D_0310, D_0311, D_1103, None}

\* app.py get_dropoffs_in_range, lines 606-614: the UTC bounds of the range,
\* or ValueError
RangeBounds(start_date_str, end_date_str) ==
    LET start_date_display_tz == strptime(start_date_str)
        end_date_display_tz == strptime(end_date_str)
    IN IF start_date_display_tz = ValueError \/ end_date_display_tz = ValueError
       THEN ValueError
       ELSE [start_date_utc |-> AsUtc(localize(start_date_display_tz)),
             end_date_utc |-> AsUtc(localize(
                                 PlusTimedelta(end_date_display_tz, 1, -1, 0)))]

\* variant: the range query without the user_id filter
RangeRowsOfAll(cu, bounds) ==
    {r \in Rows : /\ TimestampGe(r, bounds.start_date_utc)
                  /\ TimestampLe(r, bounds.end_date_utc)}

\* the rows of the range query, lines 619-623
RangeRows(cu, bounds) ==
    {r \in Rows : /\ r.user_id = cu
                  /\ TimestampGe(r, bounds.start_date_utc)
                  /\ TimestampLe(r, bounds.end_date_utc)}

\* the JSON list built from the rows, lines 625-632
RangeResults(rows) ==
    [i \in 1..Len(rows) |->
        [tracking_number |-> rows[i].tracking_number,
         timestamp |-> strftime_full(DisplayTimestamp(LoadTracking(rows[i])))]]

BadRequest == [status |-> 400, success |-> FALSE]

\* app.py get_dropoffs_in_range, the form's dates drawn from `dates`
GetDropoffsInRange(dates) ==
    /\ program = "app"
    /\ Idle
    /\ \E cu \in Authenticated : \E start_date_str, end_date_str \in dates :
        /\ request' = [route |-> "get_dropoffs_in_range", user |-> cu,
                       start_date |-> start_date_str, end_date |-> end_date_str]
        /\ IF Missing(start_date_str) \/ Missing(end_date_str)
           THEN response' = BadRequest
           ELSE LET bounds == RangeBounds(start_date_str, end_date_str)
                IN IF bounds = ValueError
                   THEN response' = BadRequest
                   ELSE \E trackings_in_range \in Ascending(RangeRows(cu, bounds)) :
                           response' =
                             [status |-> 200, success |-> TRUE,
                              trackings |-> RangeResults(trackings_in_range),
                              total_packages |-> Len(trackings_in_range),
                              start_date |-> start_date_str,
                              end_date |-> end_date_str]
    /\ UNCHANGED <<program, users, trackings, now>>

get_dropoffs_in_range == GetDropoffsInRange(DateInputs)

\* app2.py get_dropoffs_in_range and export_dropoffs_csv, lines 562-570 and
\* 610-615
app2_RangeBounds(start_date_str, end_date_str) ==
    LET start_date_display_tz == strptime(start_date_str)
        end_date_display_tz == strptime(end_date_str)
    IN IF start_date_display_tz = ValueError \/ end_date_display_tz = ValueError
       THEN ValueError
       ELSE [start_date_utc |-> AsUtc(localize(start_date_display_tz)),
             end_date_utc |-> PlusTimedelta(AsUtc(localize(end_date_display_tz)),
                                            0, 0, MicrosPerSecond - 1)]

\* app2.py get_dropoffs_in_range, the form's dates drawn from `dates`
app2_GetDropoffsInRange(dates) ==
    /\ program = "app2"
    /\ Idle
    /\ \E cu \in Authenticated : \E start_date_str, end_date_str \in dates :
        /\ request' = [route |-> "get_dropoffs_in_range", user |-> cu,
                       start_date |-> start_date_str, end_date |-> end_date_str]
        /\ IF Missing(start_date_str) \/ Missing(end_date_str)
           THEN response' = BadRequest
           ELSE LET bounds == app2_RangeBounds(start_date_str, end_date_str)
                IN IF bounds = ValueError
                   THEN response' = BadRequest
                   ELSE \E trackings_in_range \in Ascending(RangeRows(cu, bounds)) :
                           response' =
                             [status |-> 200, success |-> TRUE,
                              trackings |-> RangeResults(trackings_in_range),
                              total_packages |-> Len(trackings_in_range),
                              start_date |-> start_date_str,
                              end_date |-> end_date_str]
    /\ UNCHANGED <<program, users, trackings, now>>

app2_get_dropoffs_in_range == app2_GetDropoffsInRange(DateInputs)

\* the CSV rows, app2.py lines 639-645: number, local date, local time
CsvRows(rows) ==
    [i \in 1..Len(rows) |->
        LET shown == strftime_full(LoadTracking(rows[i]).timestamp)
        IN [tracking_number |-> rows[i].tracking_number,
            date |-> shown.date,
            time |-> [I |-> shown.I, M |-> shown.M,
                      S |-> LoadTracking(rows[i]).timestamp.s % 60,
                      p |-> shown.p, Z |-> shown.Z]]]

\* app2.py export_dropoffs_csv
export_dropoffs_csv ==
    /\ program = "app2"
    /\ Idle
    /\ \E cu \in Authenticated : \E start_date_str, end_date_str \in DateInputs :
        /\ request' = [route |-> "export_dropoffs_csv", user |-> cu,
                       start_date |-> start_date_str, end_date |-> end_date_str]
        /\ IF Missing(start_date_str) \/ Missing(end_date_str)
           THEN response' = Redirect("search_dropoffs_page", "danger")
           ELSE LET bounds == app2_RangeBounds(start_date_str, end_date_str)
                IN IF bounds = ValueError
                   THEN response' = Redirect("search_dropoffs_page", "danger")
                   ELSE \E trackings_in_range \in Ascending(RangeRows(cu, bounds)) :
                           response' =
                             IF trackings_in_range = <<>>
                             THEN Redirect("search_dropoffs_page", "info")
                             ELSE [status |-> 200, mimetype |-> "text/csv",
                                   rows |-> CsvRows(trackings_in_range),
                                   start_date |-> start_date_str,
                                   end_date |-> end_date_str]
    /\ UNCHANGED <<program, users, trackings, now>>

-----------------------------------------------------------------------------
(* Daily receipt                                                           *)

\* variant: the record is looked up by its id alone
SelectedOfAnyUser(tracking_id, cu) == {r \in Rows : r.id = tracking_id}

\* Tracking.query.filter_by(id=tracking_id, user_id=current_user.id).first()
SelectedTracking(tracking_id, cu) ==
    {r \in Rows : r.id = tracking_id /\ r.user_id = cu}

\* ids a client may name: those in the table and one that is not
TrackingIds == {r.id : r \in Rows} \cup {NewTrackingId}

\* app.py lines 434-440 (and 478-484, 536-542): the local date of the selected
\* record and the UTC bounds of the receipt's query
DayBounds(selected_tracking) ==
    LET receipt_date_obj_display_tz ==
            LocalDate(AsDisplay(LoadTracking(selected_tracking).timestamp))
        start_of_day_display_tz == CombineMin(receipt_date_obj_display_tz)
        end_of_day_display_tz == CombineMax(receipt_date_obj_display_tz)
    IN [receipt_date |-> receipt_date_obj_display_tz,
        start_of_day_utc |-> AsUtc(localize(start_of_day_display_tz)),
        end_of_day_utc |-> AsUtc(localize(
                               PlusTimedelta(end_of_day_display_tz, 1, -1, 0)))]

\* app2.py lines 365-374 (and 419-425, 488-494)
app2_DayBounds(selected_tracking) ==
    LET receipt_date_obj_display_tz == LocalDate(LoadTracking(selected_tracking).timestamp)
        start_of_day_display_tz == CombineMin(receipt_date_obj_display_tz)
        end_of_day_display_tz == CombineMax(receipt_date_obj_display_tz)
    IN [receipt_date |-> receipt_date_obj_display_tz,
        start_of_day_utc |-> AsUtc(localize(start_of_day_display_tz)),
        end_of_day_utc |-> PlusTimedelta(AsUtc(localize(end_of_day_display_tz)),
                                         0, 0, MicrosPerSecond - 1)]

\* the rows of the receipt's query
SameDayRows(cu, day) ==
    {r \in Rows : /\ r.user_id = cu
                  /\ TimestampGe(r, day.start_of_day_utc)
                  /\ TimestampLe(r, day.end_of_day_utc)}

\* aware.strftime('%I:%M %p %Z')
strftime_time(aware) ==
    LET shown == strftime_full(aware) IN [I |-> shown.I, M |-> shown.M, p |-> shown.p, Z |-> shown.Z]

\* receipt_context
ReceiptContext(day, same_day_trackings) ==
    [receipt_date |-> strftime_date(day.receipt_date),
     trackings_for_day |->
        [i \in 1..Len(same_day_trackings) |->
            LET shown == DisplayTimestamp(LoadTracking(same_day_trackings[i]))
            IN [tracking_number |-> same_day_trackings[i].tracking_number,
                timestamp |-> strftime_time(shown),
                full_timestamp |-> strftime_full(shown)]],
     total_packages |-> Len(same_day_trackings)]

NotFound == [status |-> 404, success |-> FALSE]

Recipients == {None, <<"r", "@", "x">>}

\* the three receipt views of app.py share their first half; what each does
\* with the receipt_context it built:
\*   get_tracking_details    returns it,
\*   email_receipt_dashboard mails it (400 without a recipient, 500 when the
\*                           mail server fails),
\*   download_pdf_dashboard  answers 500, HTML being None in app.py
ReceiptAnswer(route, receipt_context, recipient_email, mail_ok) ==
    IF route = "get_tracking_details"
    THEN [status |-> 200, success |-> TRUE, receiptData |-> receipt_context]
    ELSE IF route = "email_receipt_dashboard"
    THEN IF Missing(recipient_email)
         THEN [status |-> 400, success |-> FALSE, receipt_context |-> receipt_context]
         ELSE IF mail_ok
         THEN [status |-> 200, success |-> TRUE, mailed |-> receipt_context,
               to |-> recipient_email]
         ELSE [status |-> 500, success |-> FALSE, receipt_context |-> receipt_context]
    ELSE [status |-> 500, success |-> FALSE, receipt_context |-> receipt_context]

ReceiptView(route, recipients, mail_outcomes) ==
    /\ program = "app"
    /\ Idle
    /\ \E cu \in Authenticated : \E tracking_id \in TrackingIds :
        /\ request' = [route |-> route, user |-> cu, tracking_id |-> tracking_id]
        /\ IF SelectedTracking(tracking_id, cu) = {}
           THEN response' = NotFound
           ELSE LET selected_tracking == CHOOSE r \in SelectedTracking(tracking_id, cu) : TRUE
                    day == DayBounds(selected_tracking)
                IN \E same_day_trackings \in Ascending(SameDayRows(cu, day)) :
                      IF same_day_trackings = <<>>
                      THEN response' = NotFound
                      ELSE LET receipt_context == ReceiptContext(day, same_day_trackings)
                           IN \E recipient_email \in recipients : \E mail_ok \in mail_outcomes :
                                 response' = ReceiptAnswer(route, receipt_context,
                                                           recipient_email, mail_ok)
    /\ UNCHANGED <<program, users, trackings, now>>

get_tracking_details == ReceiptView("get_tracking_details", {None}, {TRUE})
email_receipt_dashboard == ReceiptView("email_receipt_dashboard", Recipients, BOOLEAN)
download_pdf_dashboard == ReceiptView("download_pdf_dashboard", {None}, {TRUE})

\* app2.py: get_tracking_details returns the receipt_context;
\* email_receipt_dashboard mails it to current_user.email and redirects;
\* download_pdf_dashboard sends the PDF when WeasyPrint is there and works,
\* and redirects otherwise
app2_ReceiptAnswer(route, receipt_context, email, works) ==
    IF route = "get_tracking_details"
    THEN [status |-> 200, success |-> TRUE, receiptData |-> receipt_context]
    ELSE IF route = "email_receipt_dashboard"
    THEN IF works
         THEN [status |-> 302, location |-> "dashboard", flash |-> "success",
               mailed |-> receipt_context, to |-> email]
         ELSE [status |-> 302, location |-> "dashboard", flash |-> "danger",
               receipt_context |-> receipt_context]
    ELSE IF works
         THEN [status |-> 200, mimetype |-> "application/pdf", pdf |-> receipt_context]
         ELSE [status |-> 302, location |-> "dashboard", flash |-> "danger",
               receipt_context |-> receipt_context]

app2_NotFound(route) ==
    IF route = "get_tracking_details" THEN NotFound ELSE Redirect("dashboard", "danger")

app2_NoneForDate(route) ==
    IF route = "get_tracking_details" THEN NotFound ELSE Redirect("dashboard", "warning")

app2_ReceiptView(route, outcomes) ==
    /\ program = "app2"
    /\ Idle
    /\ \E cu \in Authenticated : \E tracking_id \in TrackingIds :
        /\ request' = [route |-> route, user |-> cu, tracking_id |-> tracking_id]
        /\ IF SelectedTracking(tracking_id, cu) = {}
           THEN response' = app2_NotFound(route)
           ELSE LET selected_tracking == CHOOSE r \in SelectedTracking(tracking_id, cu) : TRUE
                    day == app2_DayBounds(selected_tracking)
                IN \E same_day_trackings \in Ascending(SameDayRows(cu, day)) :
                      IF same_day_trackings = <<>>
                      THEN response' = app2_NoneForDate(route)
                      ELSE LET receipt_context == ReceiptContext(day, same_day_trackings)
                           IN \E works \in outcomes :
                                 response' = app2_ReceiptAnswer(route, receipt_context,
                                                                users[cu].email, works)
    /\ UNCHANGED <<program, users, trackings, now>>

app2_get_tracking_details == app2_ReceiptView("get_tracking_details", {TRUE})
app2_email_receipt_dashboard == app2_ReceiptView("email_receipt_dashboard", BOOLEAN)
app2_download_pdf_dashboard == app2_ReceiptView("download_pdf_dashboard", BOOLEAN)

-----------------------------------------------------------------------------
(* Dashboard: day buckets                                                  *)

\* variant: the key taken from the UTC reading, tracking.timestamp.date() in UTC
utc_date(tracking) == DateOf(UtcOf(tracking.timestamp))

\* lines 266-267 of app.py (261-262 of app2.py): the key a record is filed under
drop_off_date(tracking) ==
    IF program = "app2" THEN LocalDate(tracking.timestamp)
    ELSE LocalDate(AsDisplay(tracking.timestamp))

\* trackings_by_display_date: the dates in order of first appearance, each
\* with its records in the order they were appended
RECURSIVE FirstSeen(_)
FirstSeen(list) ==
    IF list = <<>> THEN <<>>
    ELSE LET before == FirstSeen(SubSeq(list, 1, Len(list) - 1))
             date == drop_off_date(list[Len(list)])
         IN IF \E i \in 1..Len(before) : before[i] = date THEN before
            ELSE Append(before, date)

Filed(list, date) == SelectSeq(list, LAMBDA tracking : drop_off_date(tracking) = date)

DateLess(a, b) == DayNo(a) < DayNo(b)

\* variant: the dates in the reverse of the order they were first seen in
RECURSIVE ReversedDates(_)
ReversedDates(dates) ==
    IF dates = <<>> THEN <<>> ELSE Append(ReversedDates(Tail(dates)), Head(dates))

\* sorted(items, key=date, reverse=True): stable, largest key first
RECURSIVE SortedDatesReverse(_)
SortedDatesReverse(dates) ==
    IF dates = <<>> THEN <<>>
    ELSE LET rest == SortedDatesReverse(SubSeq(dates, 1, Len(dates) - 1))
             x == dates[Len(dates)]
             \* x goes after every date that is not smaller than it
             k == Cardinality({i \in 1..Len(rest) : ~DateLess(rest[i], x)})
         IN SubSeq(rest, 1, k) \o <<x>> \o SubSeq(rest, k + 1, Len(rest))

\* variant: no sort within the group
Unsorted(list) == list

\* variant: a sort that is not stable, x going before the records of its own
\* timestamp
RECURSIVE SortedTiesReversed(_)
SortedTiesReversed(list) ==
    IF list = <<>> THEN <<>>
    ELSE LET rest == SortedTiesReversed(SubSeq(list, 1, Len(list) - 1))
             x == list[Len(list)]
             k == Cardinality({i \in 1..Len(rest) :
                                 AwareBefore(rest[i].timestamp, x.timestamp)})
         IN SubSeq(rest, 1, k) \o <<x>> \o SubSeq(rest, k + 1, Len(rest))

\* sorted(trackings_list, key=lambda t: t.timestamp): stable, smallest first
RECURSIVE SortedByTimestamp(_)
SortedByTimestamp(list) ==
    IF list = <<>> THEN <<>>
    ELSE LET rest == SortedByTimestamp(SubSeq(list, 1, Len(list) - 1))
             x == list[Len(list)]
             \* x goes after every record whose timestamp is not later
             k == Cardinality({i \in 1..Len(rest) :
                                 ~AwareBefore(x.timestamp, rest[i].timestamp)})
         IN SubSeq(rest, 1, k) \o <<x>> \o SubSeq(rest, k + 1, Len(rest))

\* one entry of dashboard_data
DashboardGroup(date_obj, trackings_list) ==
    LET trackings_list_sorted == SortedByTimestamp(trackings_list)
    IN [date |-> strftime_date(date_obj),
        package_count |-> Len(trackings_list),
        trackings |->
            [i \in 1..Len(trackings_list_sorted) |->
                LET track == trackings_list_sorted[i]
                    shown == DisplayTimestamp(track)
                IN [id |-> track.id,
                    tracking_number |-> track.tracking_number,
                    timestamp |-> strftime_time(shown),
                    full_timestamp |-> strftime_full(shown)]],
        reference_id |-> trackings_list[1].id]

dashboard_data(all_user_trackings) ==
    LET grouped_trackings == SortedDatesReverse(FirstSeen(all_user_trackings))
    IN [g \in 1..Len(grouped_trackings) |->
          DashboardGroup(grouped_trackings[g],
                         Filed(all_user_trackings, grouped_trackings[g]))]

\* dashboard, the same in both programs but for the loaded timestamps.  The
\* response also records the order in which the query returned the records.
dashboard ==
    /\ Idle
    /\ \E cu \in Authenticated :
        \E query \in Descending({r \in Rows : r.user_id = cu}) :
          LET all_user_trackings == [i \in 1..Len(query) |-> LoadTracking(query[i])]
          IN /\ request' = [route |-> "dashboard", user |-> cu]
             /\ response' = [status |-> 200,
                             grouped_trackings |-> dashboard_data(all_user_trackings),
                             total_package_count |-> Len(all_user_trackings),
                             all_user_trackings |->
                                 [i \in 1..Len(query) |-> query[i].id]]
    /\ UNCHANGED <<program, users, trackings, now>>

-----------------------------------------------------------------------------
(* Admin: all drop-offs                                                    *)

UpperChars == <<"A", "B", "C", "D", "E", "F", "G", "H", "I", "J", "K", "L", "M",
                "N", "O", "P", "Q", "R", "S", "T", "U", "V", "W", "X", "Y", "Z">>
LowerChars == <<"a", "b", "c", "d", "e", "f", "g", "h", "i", "j", "k", "l", "m",
                "n", "o", "p", "q", "r", "s", "t", "u", "v", "w", "x", "y", "z">>

Lower(c) ==
    IF \E i \in 1..Len(UpperChars) : UpperChars[i] = c
    THEN LowerChars[CHOOSE i \in 1..Len(UpperChars) : UpperChars[i] = c]
    ELSE c

\* str.strip()
RECURSIVE strip(_)
strip(str) ==
    IF str # <<>> /\ Head(str) = " " THEN strip(Tail(str))
    ELSE IF str # <<>> /\ str[Len(str)] = " " THEN strip(SubSeq(str, 1, Len(str) - 1))
    ELSE str

\* SQL: str LIKE pattern, letters compared without case; % stands for any
\* run of characters and _ for any one character
RECURSIVE Like(_, _)
Like(str, pattern) ==
    IF pattern = <<>> THEN str = <<>>
    ELSE IF Head(pattern) = "%"
    THEN Like(str, Tail(pattern)) \/ (str # <<>> /\ Like(Tail(str), pattern))
    ELSE /\ str # <<>>
         /\ (Head(pattern) = "_" \/ Lower(Head(str)) = Lower(Head(pattern)))
         /\ Like(Tail(str), Tail(pattern))

\* User.phone_number.ilike(f'%{search_user_query}%')
ilike(phone_number, search_user_query) ==
    Like(phone_number, <<"%">> \o search_user_query \o <<"%">>)

\* Tracking.query.join(User), filtered by the search when there is one
JoinedRows(search_user_query) ==
    {r \in Rows : /\ r.user_id \in DOMAIN users
                  /\ (search_user_query # <<>> =>
                         ilike(users[r.user_id].phone_number, search_user_query))}

\* variant: the end of the range at 23:59:59.000000 of the end date
AdminFilterWholeSecond(start_date_str, end_date_str) ==
    LET start_date_display_tz ==
            IF Missing(start_date_str) THEN NoDateTime ELSE strptime(start_date_str)
        end_date_display_tz ==
            IF Missing(end_date_str) THEN NoDateTime ELSE strptime(end_date_str)
    IN IF start_date_display_tz = ValueError \/ end_date_display_tz = ValueError
       THEN [start_date_utc |-> NoDateTime, end_date_utc |-> NoDateTime,
             start_date |-> <<>>, end_date |-> <<>>]
       ELSE [start_date_utc |->
                 IF start_date_display_tz = NoDateTime THEN NoDateTime
                 ELSE AsUtc(localize(start_date_display_tz)),
             end_date_utc |->
                 IF end_date_display_tz = NoDateTime THEN NoDateTime
                 ELSE AsUtc(localize(ReplaceTime(end_date_display_tz, 23, 59, 59, 0))),
             start_date |-> start_date_str, end_date |-> end_date_str]

\* lines 656-679: the date filters; a ValueError from either date drops both
AdminFilter(start_date_str, end_date_str) ==
    LET start_date_display_tz ==
            IF Missing(start_date_str) THEN NoDateTime ELSE strptime(start_date_str)
        end_date_display_tz ==
            IF Missing(end_date_str) THEN NoDateTime ELSE strptime(end_date_str)
    IN IF start_date_display_tz = ValueError \/ end_date_display_tz = ValueError
       THEN [start_date_utc |-> NoDateTime, end_date_utc |-> NoDateTime,
             start_date |-> <<>>, end_date |-> <<>>]
       ELSE [start_date_utc |->
                 IF start_date_display_tz = NoDateTime THEN NoDateTime
                 ELSE AsUtc(localize(start_date_display_tz)),
             end_date_utc |->
                 IF end_date_display_tz = NoDateTime THEN NoDateTime
                 ELSE AsUtc(localize(
                          ReplaceTime(end_date_display_tz, 23, 59, 59, MicrosPerSecond - 1))),
             start_date |-> start_date_str, end_date |-> end_date_str]

AdminRows(search_user_query, filter) ==
    {r \in JoinedRows(search_user_query) :
        /\ (filter.start_date_utc # NoDateTime => TimestampGe(r, filter.start_date_utc))
        /\ (filter.end_date_utc # NoDateTime => TimestampLe(r, filter.end_date_utc))}

SearchInputs == { <<>>, <<"1">>, <<"_">> }

\* @admin_required: a signed-in user who is no admin is sent to the dashboard
\* before the view runs
AdminRequired(routes) ==
    /\ program = "app"
    /\ Idle
    /\ \E cu \in Authenticated : \E route \in routes :
        /\ ~users[cu].is_admin
        /\ request' = [route |-> route, user |-> cu]
        /\ response' = Redirect("dashboard", "danger")
    /\ UNCHANGED <<program, users, trackings, now>>

admin_required == AdminRequired({"admin_dropoffs"})

\* lines 659-672: what the two dates raise, the start date first; only
\* ValueError is caught (line 674)
AdminDatesRaise(start_date_str, end_date_str) ==
    LET start_ymd == IF Missing(start_date_str) THEN NoDateTime
                     ELSE strptime_ymd(start_date_str)
        end_ymd == IF Missing(end_date_str) THEN NoDateTime
                   ELSE strptime_ymd(end_date_str)
    IN IF start_ymd = ValueError THEN ValueError
       ELSE IF start_ymd # NoDateTime /\ localize_overflows(start_ymd) THEN OverflowError
       ELSE IF end_ymd = ValueError THEN ValueError
       ELSE IF end_ymd # NoDateTime /\ localize_overflows(end_ymd) THEN OverflowError
       ELSE NoDateTime

\* app.py admin_dropoffs, the dates drawn from the set given; an exception
\* nothing catches is answered 500
AdminDropoffs(dates) ==
    /\ program = "app"
    /\ Idle
    /\ \E cu \in Authenticated :
       \E search_user \in SearchInputs : \E start_date_str, end_date_str \in dates :
        /\ users[cu].is_admin
        /\ request' = [route |-> "admin_dropoffs", user |-> cu,
                       search_user |-> search_user,
                       start_date |-> start_date_str, end_date |-> end_date_str]
        /\ IF AdminDatesRaise(start_date_str, end_date_str) = OverflowError
           THEN response' = [status |-> 500]
           ELSE
           LET search_user_query == strip(search_user)
               filter == AdminFilter(start_date_str, end_date_str)
           IN \E dropoffs \in Descending(AdminRows(search_user_query, filter)) :
               /\ response' = [status |-> 200,
                               dropoffs |-> [i \in 1..Len(dropoffs) |->
                                               [id |-> dropoffs[i].id,
                                                tracking_number |-> dropoffs[i].tracking_number,
                                                phone_number |->
                                                   users[dropoffs[i].user_id].phone_number,
                                                timestamp |->
                                                   LoadTracking(dropoffs[i]).timestamp]],
                               search_user_query |-> search_user_query,
                               start_date |-> filter.start_date,
                               end_date |-> filter.end_date]
    /\ UNCHANGED <<program, users, trackings, now>>

admin_dropoffs == AdminDropoffs(DateInputs)

-----------------------------------------------------------------------------
(* Admin: records and users (app.py)                                       *)

\* the routes behind @admin_required
AdminRoutes ==
    {"edit_tracking", "admin_users", "admin_export_all_dropoffs_csv",
     "toggle_admin_status", "delete_user", "reset_user_password", "admin_dropoffs",
     "export_all_dropoffs_csv"}

\* get_or_404 found nothing
Abort404 == [status |-> 404]

\* render_template(...) after flash(category); category "" when nothing is flashed
Render(template, category, context) ==
    [status |-> 200, template |-> template, flash |-> category, context |-> context]

\* the row of a tracking id: Tracking.query.get
TrackingOfId(tracking_id) == {r \in Rows : r.id = tracking_id}

\* variant: the edit also stamps the record with the time of the edit
WithNumberAndTime(tracking_id, new_tracking_number) ==
    [i \in 1..Len(trackings) |->
        IF trackings[i].id = tracking_id
        THEN [trackings[i] EXCEPT !.tracking_number = new_tracking_number,
                                  !.timestamp = ColumnValue(UtcNow)]
        ELSE trackings[i]]

\* the table with one row's tracking_number set
WithNumber(tracking_id, new_tracking_number) ==
    [i \in 1..Len(trackings) |->
        IF trackings[i].id = tracking_id
        THEN [trackings[i] EXCEPT !.tracking_number = new_tracking_number]
        ELSE trackings[i]]

\* variant: the query does not leave out the record being edited
existing_any(tracking_id, new_tracking_number) ==
    {r \in Rows : r.tracking_number = new_tracking_number}

\* the query of lines 233-236: records with the new number, the edited one
\* left out
existing_other(tracking_id, new_tracking_number) ==
    {r \in Rows : r.tracking_number = new_tracking_number /\ r.id # tracking_id}

\* edit_tracking, GET and POST
edit_tracking ==
    /\ program = "app"
    /\ Idle
    /\ \E cu \in Authenticated : \E tracking_id \in TrackingIds :
       \E method \in {"GET", "POST"} : \E new_tracking_number \in TrackingInputs \cup {None} :
        /\ users[cu].is_admin
        /\ method = "GET" => new_tracking_number = None
        /\ request' = [route |-> "edit_tracking", user |-> cu, method |-> method,
                       tracking_id |-> tracking_id, tracking_number |-> new_tracking_number]
        /\ IF TrackingOfId(tracking_id) = {}
           THEN response' = Abort404 /\ UNCHANGED trackings
           ELSE LET tracking == CHOOSE r \in TrackingOfId(tracking_id) : TRUE
                    form == Render("admin/edit_tracking.html", "", LoadTracking(tracking))
                IN IF method = "GET"
                   THEN response' = form /\ UNCHANGED trackings
                   ELSE IF Missing(new_tracking_number)
                   THEN response' = [form EXCEPT !.flash = "danger"] /\ UNCHANGED trackings
                   ELSE IF existing_other(tracking_id, new_tracking_number) # {}
                   THEN response' = [form EXCEPT !.flash = "warning"] /\ UNCHANGED trackings
                   ELSE /\ trackings' = WithNumber(tracking_id, new_tracking_number)
                        /\ response' = Redirect("admin_users", "success")
    /\ UNCHANGED <<program, users, now>>

\* delete_tracking: a record of the signed-in user (the same in both programs)
DeleteTracking(prog) ==
    /\ program = prog
    /\ Idle
    /\ \E cu \in Authenticated : \E tracking_id \in TrackingIds :
        /\ request' = [route |-> "delete_tracking", user |-> cu, tracking_id |-> tracking_id]
        /\ IF SelectedTracking(tracking_id, cu) # {}
           THEN /\ trackings' = SelectSeq(trackings, LAMBDA r : r.id # tracking_id)
                /\ response' = Redirect("dashboard", "success")
           ELSE /\ UNCHANGED trackings
                /\ response' = Redirect("dashboard", "danger")
    /\ UNCHANGED <<program, users, now>>

delete_tracking == DeleteTracking("app")
app2_delete_tracking == DeleteTracking("app2")

\* ids a client may name: those of the users and one that is not
UserIds == DOMAIN users \cup {MaxOf(DOMAIN users) + 1}

\* the User table without one user
WithoutUser(user_id) == [u \in DOMAIN users \ {user_id} |-> users[u]]

\* variant: the request never counts as naming the signed-in user
NeverSameUser(user_id, cu) == FALSE

\* user.id == current_user.id
SameUser(user_id, cu) == user_id = cu

\* variant: the user's trackings stay in the table
WithAllTrackings(user_id) == trackings

\* Tracking.query.filter_by(user_id=user_to_delete.id).delete()
WithoutTrackingsOf(user_id) == SelectSeq(trackings, LAMBDA r : r.user_id # user_id)

\* delete_user: the user and all their trackings
delete_user ==
    /\ program = "app"
    /\ Idle
    /\ \E cu \in Authenticated : \E user_id \in UserIds :
        /\ users[cu].is_admin
        /\ request' = [route |-> "delete_user", user |-> cu, user_id |-> user_id]
        /\ IF user_id \notin DOMAIN users
           THEN response' = Abort404 /\ UNCHANGED <<users, trackings>>
           ELSE IF SameUser(user_id, cu)
           THEN response' = Redirect("admin_users", "warning") /\ UNCHANGED <<users, trackings>>
           ELSE /\ trackings' = WithoutTrackingsOf(user_id)
                /\ users' = WithoutUser(user_id)
                /\ response' = Redirect("admin_users", "success")
    /\ UNCHANGED <<program, now>>

\* requests to the admin routes by users who are no admins, and without a
\* session
admin_required_any == AdminRequired(AdminRoutes)
login_required_admin == LoginRequired(AdminRoutes \cup {"delete_tracking", "add_tracking"})

\* the records of app.py under add, edit and delete requests
InitTrackings ==
    /\ program = "app"
    /\ users = InitUsers
    /\ trackings = <<>>
    /\ now = ClockJune[1]
    /\ request = NoRequest
    /\ response = NoResponse

NextTrackings ==
    \/ Tick
    \/ send_response
    \/ add_tracking
    \/ edit_tracking
    \/ delete_tracking
    \/ delete_user
    \/ admin_required_any
    \/ login_required_admin

SpecTrackings == InitTrackings /\ [][NextTrackings]_vars

-----------------------------------------------------------------------------
(* Accounts and the admin role (app.py)                                    *)

\* the largest id a user row is given (as with trackings, the id of a deleted
\* last row is given again)
MaxUserId == 3

\* INTEGER PRIMARY KEY of the user table
NewUserId == MaxOf(DOMAIN users) + 1

\* phone numbers typed into the registration form: one taken at the start,
\* one free
PhoneInputs == { <<"5", "1">>, <<"5", "3">> }
PasswordInputs == { <<"p">> }
NewPasswordInputs == { <<"n">> }

\* bcrypt.generate_password_hash: a digest check_password matches against the
\* password it was made from
generate_password_hash(password) == [bcrypt |-> password]

\* a User object as loaded from its row
LoadUser(user_id) ==
    [id |-> user_id,
     phone_number |-> users[user_id].phone_number,
     is_admin |-> users[user_id].is_admin,
     created_at |-> process_result_value(users[user_id].created_at)]

\* variant: the view runs for any signed-in user
AnyUser(cu) == TRUE

\* what @admin_required lets through: current_user.is_admin
Admin(cu) == users[cu].is_admin

\* variant: the query finds no user
NoUserWithPhone(phone_number) == {}

\* User.query.filter_by(phone_number=phone_number): the ids found
UsersWithPhone(phone_number) ==
    {u \in DOMAIN users : users[u].phone_number = phone_number}

\* register, GET and POST
register ==
    /\ program = "app"
    /\ Idle
    /\ \E cu \in Authenticated \cup {Anonymous} : \E method \in {"GET", "POST"} :
       \E phone_number \in PhoneInputs \cup {None} : \E password \in PasswordInputs \cup {None} :
        /\ (method = "GET" \/ cu # Anonymous) => (phone_number = None /\ password = None)
        /\ request' = [route |-> "register", user |-> cu, method |-> method,
                       phone_number |-> phone_number, password |-> password]
        /\ IF cu # Anonymous
           THEN response' = Redirect("dashboard", "") /\ UNCHANGED users
           ELSE IF method = "GET"
           THEN response' = Render("register.html", "", <<>>) /\ UNCHANGED users
           ELSE IF Missing(phone_number) \/ Missing(password)
           THEN response' = Render("register.html", "danger", <<>>) /\ UNCHANGED users
           ELSE IF UsersWithPhone(phone_number) # {}
           THEN response' = Redirect("login", "warning") /\ UNCHANGED users
           ELSE /\ NewUserId <= MaxUserId
                /\ users' = users @@
                       (NewUserId :> [phone_number |-> phone_number,
                                      is_admin |-> FALSE,
                                      password_hash |-> generate_password_hash(password),
                                      created_at |-> ColumnValue(UtcNow)])
                /\ response' = Redirect("login", "success")
    /\ UNCHANGED <<program, trackings, now>>

\* toggle_admin_status
toggle_admin_status ==
    /\ program = "app"
    /\ Idle
    /\ \E cu \in Authenticated : \E user_id \in UserIds :
        /\ Admin(cu)
        /\ request' = [route |-> "toggle_admin_status", user |-> cu, user_id |-> user_id]
        /\ IF user_id \notin DOMAIN users
           THEN response' = Abort404 /\ UNCHANGED users
           ELSE IF SameUser(user_id, cu)
           THEN response' = Redirect("admin_users", "warning") /\ UNCHANGED users
           ELSE /\ users' = [users EXCEPT ![user_id].is_admin = ~users[user_id].is_admin]
                /\ response' = Redirect("admin_users", "success")
    /\ UNCHANGED <<program, trackings, now>>

\* reset_user_password, GET and POST
reset_user_password ==
    /\ program = "app"
    /\ Idle
    /\ \E cu \in Authenticated : \E user_id \in UserIds : \E method \in {"GET", "POST"} :
       \E new_password \in NewPasswordInputs \cup {None} :
        /\ Admin(cu)
        /\ method = "GET" => new_password = None
        /\ request' = [route |-> "reset_user_password", user |-> cu, method |-> method,
                       user_id |-> user_id, new_password |-> new_password]
        /\ IF user_id \notin DOMAIN users
           THEN response' = Abort404 /\ UNCHANGED users
           ELSE LET form == Render("admin/reset_password.html", "", LoadUser(user_id))
                IN IF method = "GET"
                   THEN response' = form /\ UNCHANGED users
                   ELSE IF Missing(new_password)
                   THEN response' = [form EXCEPT !.flash = "danger"] /\ UNCHANGED users
                   ELSE /\ users' = [users EXCEPT ![user_id].password_hash =
                                                      generate_password_hash(new_password)]
                        /\ response' = Redirect("admin_users", "success")
    /\ UNCHANGED <<program, trackings, now>>

\* User.query.order_by(User.created_at.desc()).all(): the lists the query may
\* return
UsersByCreatedAtDesc ==
    {q \in [1..Cardinality(DOMAIN users) -> DOMAIN users] :
        /\ \A i, j \in 1..Cardinality(DOMAIN users) : i < j => q[i] # q[j]
        /\ \A i, j \in 1..Cardinality(DOMAIN users) :
              i < j => AtOrBefore(users[q[j]].created_at, users[q[i]].created_at)}

\* admin_users
admin_users ==
    /\ program = "app"
    /\ Idle
    /\ \E cu \in Authenticated : \E q \in UsersByCreatedAtDesc :
        /\ Admin(cu)
        /\ request' = [route |-> "admin_users", user |-> cu]
        /\ response' = Render("admin/users.html", "",
                              [i \in 1..Len(q) |-> LoadUser(q[i])])
    /\ UNCHANGED <<program, users, trackings, now>>

\* aware.strftime('%Y-%m-%d %H:%M:%S UTC'): the wall reading, then the
\* letters UTC
strftime_utc(aware) ==
    LET sod == aware.s % SecondsPerDay
    IN [date |-> strftime_date(DateOf(aware)),
        H |-> sod \div SecondsPerHour,
        M |-> (sod % SecondsPerHour) \div 60,
        S |-> sod % 60,
        suffix |-> "UTC"]

\* the rows of the admin CSV: id, number, time, the owner's phone number
AllCsvRows(rows) ==
    [i \in 1..Len(rows) |->
        [id |-> rows[i].id,
         tracking_number |-> rows[i].tracking_number,
         dropoff_date |-> strftime_utc(LoadTracking(rows[i]).timestamp),
         user_phone_number |-> IF rows[i].user_id \in DOMAIN users
                               THEN users[rows[i].user_id].phone_number
                               ELSE <<"N", "/", "A">>]]

\* the two exports of every drop-off; the download name carries the server's
\* local clock reading, which is no part of the state
ExportAllDropoffsCsv(route) ==
    /\ program = "app"
    /\ Idle
    /\ \E cu \in Authenticated : \E all_trackings \in Descending(Rows) :
        /\ Admin(cu)
        /\ request' = [route |-> route, user |-> cu]
        /\ response' = [status |-> 200, mimetype |-> "text/csv",
                        rows |-> AllCsvRows(all_trackings)]
    /\ UNCHANGED <<program, users, trackings, now>>

admin_export_all_dropoffs_csv == ExportAllDropoffsCsv("admin_export_all_dropoffs_csv")
export_all_dropoffs_csv == ExportAllDropoffsCsv("export_all_dropoffs_csv")

\* an admin and a user, each with one drop-off
InitAccounts ==
    (1 :> [phone_number |-> <<"5", "1">>, is_admin |-> TRUE,
           password_hash |-> generate_password_hash(<<"a">>),
           created_at |-> DateTime(2024, 5, 1, 12, 0, 0, 0)]) @@
    (2 :> [phone_number |-> <<"5", "2">>, is_admin |-> FALSE,
           password_hash |-> generate_password_hash(<<"b">>),
           created_at |-> DateTime(2024, 5, 2, 12, 0, 0, 0)])

InitAccountTrackings ==
    << [id |-> 1, user_id |-> 1, tracking_number |-> <<"7", "0", "1">>,
        timestamp |-> DateTime(2024, 5, 3, 12, 0, 0, 0)],
       [id |-> 2, user_id |-> 2, tracking_number |-> <<"7", "0", "1">>,
        timestamp |-> DateTime(2024, 5, 3, 12, 0, 0, 0)] >>

InitUsersSpec ==
    /\ program = "app"
    /\ users = InitAccounts
    /\ trackings = InitAccountTrackings
    /\ now = ClockJune[1]
    /\ request = NoRequest
    /\ response = NoResponse

NextUsers ==
    \/ Tick
    \/ send_response
    \/ register
    \/ toggle_admin_status
    \/ delete_user
    \/ reset_user_password
    \/ admin_users
    \/ edit_tracking
    \/ admin_export_all_dropoffs_csv
    \/ export_all_dropoffs_csv
    \/ admin_required_any
    \/ login_required_admin

SpecUsers == InitUsersSpec /\ [][NextUsers]_vars

-----------------------------------------------------------------------------
(* add_tracking served by two workers at once (app.py)                     *)

\* the workers of the server, each serving one request at a time with a
\* database session of its own
Workers == {1, 2}

\* a worker between requests
NoWork == [route |-> "", user |-> Anonymous, pc |-> "idle"]

\* a request arrives at a worker: lines 302-305, the form is read and an empty
\* number is refused
add_tracking_begin(w) ==
    /\ request[w].pc = "idle"
    /\ \E cu \in Authenticated : \E tracking_number \in TrackingInputs \cup {None} :
        IF Missing(tracking_number)
        THEN /\ request' = [request EXCEPT ![w] =
                    [route |-> "add_tracking", user |-> cu,
                     tracking_number |-> tracking_number, pc |-> "done"]]
             /\ response' = [response EXCEPT ![w] = Redirect("dashboard", "danger")]
        ELSE /\ request' = [request EXCEPT ![w] =
                    [route |-> "add_tracking", user |-> cu,
                     tracking_number |-> tracking_number, pc |-> "query"]]
             /\ UNCHANGED response
    /\ UNCHANGED <<program, users, trackings, now>>

\* line 307: the existence query, which sees the rows committed so far
add_tracking_query(w) ==
    /\ request[w].pc = "query"
    /\ request' = [request EXCEPT ![w] =
            [route |-> "add_tracking", user |-> request[w].user,
             tracking_number |-> request[w].tracking_number, pc |-> "queried",
             existing_tracking |->
                 existing_tracking(request[w].user, request[w].tracking_number) # {}]]
    /\ UNCHANGED <<program, users, trackings, now, response>>

\* lines 308-316: the warning, or the insert and its commit; the table has no
\* constraint that could refuse the row
add_tracking_commit(w) ==
    /\ request[w].pc = "queried"
    /\ IF request[w].existing_tracking
       THEN /\ response' = [response EXCEPT ![w] = Redirect("dashboard", "warning")]
            /\ UNCHANGED trackings
       ELSE /\ Len(trackings) < MaxTrackings
            /\ NewTrackingId <= MaxTrackingId
            /\ trackings' = Append(trackings,
                   [id |-> NewTrackingId, user_id |-> request[w].user,
                    tracking_number |-> request[w].tracking_number,
                    timestamp |-> ColumnValue(UtcNow)])
            /\ response' = [response EXCEPT ![w] = Redirect("dashboard", "success")]
    /\ request' = [request EXCEPT ![w].pc = "done"]
    /\ UNCHANGED <<program, users, now>>

\* the worker's response goes out
send_response_of(w) ==
    /\ request[w].pc = "done"
    /\ request' = [request EXCEPT ![w] = NoWork]
    /\ response' = [response EXCEPT ![w] = NoResponse]
    /\ UNCHANGED <<program, users, trackings, now>>

\* the server clock moves on
TickConcurrent ==
    /\ \E i \in 1..(Len(ClockJune) - 1) : now = ClockJune[i] /\ now' = ClockJune[i + 1]
    /\ UNCHANGED <<program, users, trackings, request, response>>

InitConcurrent ==
    /\ program = "app"
    /\ users = InitUsers
    /\ trackings = <<>>
    /\ now = ClockJune[1]
    /\ request = [w \in Workers |-> NoWork]
    /\ response = [w \in Workers |-> NoResponse]

NextConcurrent ==
    \/ TickConcurrent
    \/ \E w \in Workers : add_tracking_begin(w)
    \/ \E w \in Workers : add_tracking_query(w)
    \/ \E w \in Workers : add_tracking_commit(w)
    \/ \E w \in Workers : send_response_of(w)

SpecConcurrent == InitConcurrent /\ [][NextConcurrent]_vars

-----------------------------------------------------------------------------

Init ==
    /\ program \in {"app", "app2"}
    /\ users = (IF program = "app" THEN InitUsers ELSE InitUsers2)
    /\ trackings = <<>>
    /\ now \in {clock[1] : clock \in Clocks}
    /\ request = NoRequest
    /\ response = NoResponse

Next ==
    \/ Tick
    \/ send_response
    \/ login_required
    \/ add_tracking
    \/ app2_add_tracking
    \/ get_dropoffs_in_range
    \/ app2_get_dropoffs_in_range
    \/ export_dropoffs_csv
    \/ get_tracking_details
    \/ email_receipt_dashboard
    \/ download_pdf_dashboard
    \/ app2_get_tracking_details
    \/ app2_email_receipt_dashboard
    \/ app2_download_pdf_dashboard
    \/ dashboard
    \/ admin_required
    \/ admin_dropoffs

Spec == Init /\ [][Next]_vars

-----------------------------------------------------------------------------
(* The views of a signed-in user, over the days around 2024-03-10          *)

InitUserViews ==
    /\ program \in {"app", "app2"}
    /\ users = (IF program = "app" THEN InitUsers ELSE InitUsers2)
    /\ trackings = <<>>
    /\ now = ClockSpringDay[1]
    /\ request = NoRequest
    /\ response = NoResponse

NextUserViews ==
    \/ Tick
    \/ send_response
    \/ add_tracking
    \/ app2_add_tracking
    \/ dashboard
    \/ get_dropoffs_in_range
    \/ app2_get_dropoffs_in_range
    \/ get_tracking_details
    \/ email_receipt_dashboard
    \/ download_pdf_dashboard
    \/ app2_get_tracking_details
    \/ app2_email_receipt_dashboard
    \/ app2_download_pdf_dashboard

SpecUserViews == InitUserViews /\ [][NextUserViews]_vars

-----------------------------------------------------------------------------
(* app2.py add_tracking given numbers of every kind                        *)

\* values typed into the form: digits only, digits with other characters
\* between them, thirteen digits, no digit at all, nothing
N_701 == <<"7", "0", "1">>
N_7_01 == <<"7", "-", "0", " ", "1">>
N_13 == <<"1", "2", "3", "4", "5", "6", "7", "8", "9", "0", "1", "2", "3">>
N_Letters == <<"a", "b">>
NumberInputs == {N_701, N_7_01, N_13, N_Letters, <<>>}

app2_add_tracking_any == app2_AddTracking(NumberInputs)

InitNumbers ==
    /\ program = "app2"
    /\ users = InitUsers2
    /\ trackings = <<>>
    /\ now = ClockJune[1]
    /\ request = NoRequest
    /\ response = NoResponse

NextNumbers ==
    \/ Tick
    \/ send_response
    \/ app2_add_tracking_any

SpecNumbers == InitNumbers /\ [][NextNumbers]_vars

-----------------------------------------------------------------------------
(* Adding and deleting one's records, in both programs                     *)

InitDeletes ==
    /\ program \in {"app", "app2"}
    /\ users = (IF program = "app" THEN InitUsers ELSE InitUsers2)
    /\ trackings = <<>>
    /\ now = ClockJune[1]
    /\ request = NoRequest
    /\ response = NoResponse

NextDeletes ==
    \/ Tick
    \/ send_response
    \/ add_tracking
    \/ app2_add_tracking
    \/ delete_tracking
    \/ app2_delete_tracking

SpecDeletes == InitDeletes /\ [][NextDeletes]_vars

-----------------------------------------------------------------------------
(* Registration, in both programs                                          *)

\* addresses typed into app2.py's form: one taken at the start, one free
EmailInputs == { <<"a", "@", "x">>, <<"c", "@", "x">> }

\* app2.py register, GET and POST
app2_register ==
    /\ program = "app2"
    /\ Idle
    /\ \E cu \in Authenticated \cup {Anonymous} : \E method \in {"GET", "POST"} :
       \E phone_number \in PhoneInputs \cup {None} : \E email \in EmailInputs \cup {None} :
       \E password \in PasswordInputs \cup {None} :
        /\ (method = "GET" \/ cu # Anonymous) =>
              (phone_number = None /\ email = None /\ password = None)
        /\ request' = [route |-> "register", user |-> cu, method |-> method,
                       phone_number |-> phone_number, email |-> email,
                       password |-> password]
        /\ IF cu # Anonymous
           THEN response' = Redirect("dashboard", "") /\ UNCHANGED users
           ELSE IF method = "GET"
           THEN response' = Render("register.html", "", <<>>) /\ UNCHANGED users
           ELSE IF Missing(phone_number) \/ Missing(email) \/ Missing(password)
           THEN response' = Render("register.html", "danger", <<>>) /\ UNCHANGED users
           ELSE IF UsersWithPhone(phone_number) # {}
           THEN response' = Redirect("login", "warning") /\ UNCHANGED users
           ELSE IF \E u \in DOMAIN users : users[u].email = email
           THEN response' = Render("register.html", "warning", <<>>) /\ UNCHANGED users
           ELSE /\ NewUserId <= MaxUserId
                /\ users' = users @@
                       (NewUserId :> [phone_number |-> phone_number,
                                      email |-> email,
                                      password_hash |-> generate_password_hash(password),
                                      created_at |-> ColumnValue(UtcNow)])
                /\ response' = Redirect("login", "success")
    /\ UNCHANGED <<program, trackings, now>>

\* two users of app2.py
InitAccounts2 ==
    (1 :> [phone_number |-> <<"5", "1">>, email |-> <<"a", "@", "x">>,
           password_hash |-> generate_password_hash(<<"a">>),
           created_at |-> DateTime(2024, 5, 1, 12, 0, 0, 0)]) @@
    (2 :> [phone_number |-> <<"5", "2">>, email |-> <<"b", "@", "x">>,
           password_hash |-> generate_password_hash(<<"b">>),
           created_at |-> DateTime(2024, 5, 2, 12, 0, 0, 0)])

InitRegister ==
    /\ program \in {"app", "app2"}
    /\ users \in (IF program = "app" THEN {InitAccounts, <<>>} ELSE {InitAccounts2, <<>>})
    /\ trackings = <<>>
    /\ now = ClockJune[1]
    /\ request = NoRequest
    /\ response = NoResponse

NextRegister ==
    \/ Tick
    \/ send_response
    \/ register
    \/ app2_register

SpecRegister == InitRegister /\ [][NextRegister]_vars

-----------------------------------------------------------------------------
(* The range search given dates of every kind                              *)

\* form values that name no day of the calendar (no value at all is None):
\* the empty string, 2024-02-30, 2024-13-01 and 03/10/2024
EmptyString == <<>>
D_0230 == <<"2", "0", "2", "4", "-", "0", "2", "-", "3", "0">>
D_1301 == <<"2", "0", "2", "4", "-", "1", "3", "-", "0", "1">>
D_Slashes == <<"0", "3", "/", "1", "0", "/", "2", "0", "2", "4">>

\* a date written without its zero: strptime takes 2024-3-10 for 2024-03-10
D_310 == <<"2", "0", "2", "4", "-", "3", "-", "1", "0">>

AnyDateInputs == {None, EmptyString, D_0230, D_1301, D_Slashes, D_310, D_0310}

get_dropoffs_in_range_any == GetDropoffsInRange(AnyDateInputs)
app2_get_dropoffs_in_range_any == app2_GetDropoffsInRange(AnyDateInputs)

InitValidation ==
    /\ program \in {"app", "app2"}
    /\ users = (IF program = "app" THEN InitUsers ELSE InitUsers2)
    /\ trackings = <<>>
    /\ now = ClockSpringDay[2]
    /\ request = NoRequest
    /\ response = NoResponse

NextValidation ==
    \/ send_response
    \/ add_tracking
    \/ app2_add_tracking
    \/ get_dropoffs_in_range_any
    \/ app2_get_dropoffs_in_range_any

SpecValidation == InitValidation /\ [][NextValidation]_vars

-----------------------------------------------------------------------------
(* admin_dropoffs given dates of every kind                                *)

\* the first and the last day a datetime can hold
D_Min == <<"0", "0", "0", "1", "-", "0", "1", "-", "0", "1">>
D_Max == <<"9", "9", "9", "9", "-", "1", "2", "-", "3", "1">>

AdminDateInputs == {None, D_0310, D_1103, D_0230, D_Slashes, D_Min, D_Max}

admin_dropoffs_any == AdminDropoffs(AdminDateInputs)

InitAdminDates ==
    /\ program = "app"
    /\ users = InitUsers
    /\ trackings = <<>>
    /\ now = ClockJune[1]
    /\ request = NoRequest
    /\ response = NoResponse

NextAdminDates ==
    \/ Tick
    \/ send_response
    \/ add_tracking
    \/ admin_dropoffs_any
    \/ admin_required

SpecAdminDates == InitAdminDates /\ [][NextAdminDates]_vars

-----------------------------------------------------------------------------
(* The shipping proxy (ship/app.py)                                        *)

\* JSON values: t is the type, v the value; amounts are whole cents
JNull == [t |-> "null"]
JNum(n) == [t |-> "number", v |-> n]
JStr(str) == [t |-> "string", v |-> str]
JList(items) == [t |-> "list", v |-> items]
JDict(fields) == [t |-> "dict", v |-> fields]

\* bool(value)
Truthy(value) ==
    CASE value.t = "null" -> FALSE
      [] value.t = "number" -> value.v # 0
      [] value.t = "string" -> value.v # <<>>
      [] value.t = "list" -> value.v # <<>>
      [] value.t = "dict" -> DOMAIN value.v # {}

\* dict.get(key, default)
Get(dict, key, default) == IF key \in DOMAIN dict.v THEN dict.v[key] ELSE default

\* sub in str, of two strings
StrIn(sub, str) ==
    \E i \in 1..(Len(str) - Len(sub) + 1) : SubSeq(str, i, i + Len(sub) - 1) = sub

S_errors == <<"e", "r", "r", "o", "r", "s">>

\* a str, an exception object, and what a function that raised leaves behind
Text(str) == [text |-> str]
Exception(name) == [exception |-> name]
Raised(name) == [raised |-> name]

\* lines 39-84: the .get and .strip calls made on the payload before the try
\* block raise AttributeError on anything that is no dict, or no string
PayloadRaises(payload_data) ==
    \/ payload_data.t # "dict"
    \/ \E key \in {"from", "to", "package"} :
          Get(payload_data, key, JDict(<<>>)).t # "dict"
    \/ \E key \in {"from", "to"} :
          Get(Get(payload_data, key, JDict(<<>>)), "country", JStr(<<>>)).t # "string"
    \/ \E key \in {"weight", "dimensions"} :
          Get(Get(payload_data, "package", JDict(<<>>)), key, JDict(<<>>)).t # "dict"

\* lines 101-120: the body the carrier sent, parsed; an exception raised on the
\* way is what the except clause of line 142 receives
ParseRates(response_data) ==
    IF Truthy(response_data) /\ response_data.t = "list"
    THEN LET first_rate == response_data.v[1]
         IN IF first_rate.t # "dict" THEN Raised("AttributeError")
            ELSE LET shipping_cost == Get(first_rate, "shipmentCost", JNull)
                     other_charges == Get(first_rate, "otherCost", JNum(0))
                 IN IF shipping_cost.t = "null"
                    THEN [success |-> FALSE,
                          message |-> Text("Could not extract total fee from response.")]
                    ELSE IF shipping_cost.t = "number" /\ other_charges.t = "number"
                    THEN [success |-> TRUE, fee |-> shipping_cost.v + other_charges.v,
                          details |-> first_rate]
                    ELSE IF shipping_cost.t = other_charges.t
                    THEN Raised("ValueError")
                    ELSE Raised("TypeError")
    ELSE IF ~Truthy(response_data)
    THEN [success |-> FALSE,
          message |-> Text("Unexpected response structure from ShipStation API.")]
    ELSE IF response_data.t = "number" THEN Raised("TypeError")
    ELSE IF response_data.t = "string"
    THEN IF StrIn(S_errors, response_data.v) THEN Raised("TypeError")
         ELSE [success |-> FALSE,
               message |-> Text("Unexpected response structure from ShipStation API.")]
    ELSE IF "errors" \in DOMAIN response_data.v
    THEN [success |-> FALSE, message |-> Text("ShipStation API Error: ...")]
    ELSE [success |-> FALSE,
          message |-> Text("Unexpected response structure from ShipStation API.")]

\* calculate_shipping_fee_from_shipstation: carrier is what requests.post and
\* response.json() come to
calculate_shipping_fee_from_shipstation(payload_data, carrier) ==
    IF PayloadRaises(payload_data) THEN Raised("AttributeError")
    ELSE CASE carrier.kind = "HTTPError" ->
                [success |-> FALSE, message |-> Text("HTTP error occurred: ...")]
           [] carrier.kind = "ConnectionError" ->
                [success |-> FALSE, message |-> Text("Connection error occurred: ...")]
           [] carrier.kind = "Timeout" ->
                [success |-> FALSE, message |-> Text("Timeout error occurred: ...")]
           \* response.json() failed: the clause of line 134 or that of line 138,
           \* by the version of requests; both return a text
           [] carrier.kind = "JSONDecodeError" ->
                [success |-> FALSE, message |-> Text("An unexpected request error occurred: ...")]
           [] carrier.kind = "json" ->
                LET result == ParseRates(carrier.body)
                IN IF "raised" \in DOMAIN result
                   THEN [success |-> FALSE, message |-> Exception(result.raised)]
                   ELSE result

\* Flask's answer to an exception that no handler caught
Unhandled(name) == [status |-> 500, exception |-> name]

\* jsonify(...), status: an exception object in the body cannot be serialized
\* and raises TypeError
jsonify(body, status) ==
    IF "message" \in DOMAIN body /\ "exception" \in DOMAIN body.message
    THEN Unhandled("TypeError")
    ELSE [status |-> status, json |-> body]

\* the first rates a carrier may send
RateInputs ==
    { JNum(5), JNull, JDict(<<>>),
      JDict("shipmentCost" :> JNum(500)),
      JDict("shipmentCost" :> JNum(500) @@ "otherCost" :> JNum(25)),
      JDict("shipmentCost" :> JNum(0) @@ "otherCost" :> JNum(0)),
      JDict("otherCost" :> JNum(25)),
      JDict("shipmentCost" :> JNull @@ "otherCost" :> JNum(25)),
      JDict("shipmentCost" :> JNum(500) @@ "otherCost" :> JNull),
      JDict("shipmentCost" :> JStr(<<"5">>)),
      JDict("shipmentCost" :> JNum(500) @@ "otherCost" :> JStr(<<"1">>)),
      JDict("shipmentCost" :> JStr(<<"5">>) @@ "otherCost" :> JStr(<<"1">>)) }

\* what the carrier's API comes to
CarrierInputs ==
    { [kind |-> k] : k \in {"HTTPError", "ConnectionError", "Timeout", "JSONDecodeError"} }
    \cup { [kind |-> "json", body |-> b] :
             b \in { JNull, JNum(0), JNum(5), JStr(<<>>), JStr(<<"x">>), JStr(S_errors),
                     JDict(<<>>), JDict("errors" :> JStr(<<"x">>)),
                     JDict("message" :> JStr(<<"x">>)), JList(<<>>) }
                   \cup { JList(<<rate>>) : rate \in RateInputs }
                   \cup { JList(<<rate, JDict("shipmentCost" :> JNum(100))>>) :
                            rate \in RateInputs } }

\* request bodies sent as application/json
PayloadInputs ==
    { JNull, JList(<<>>), JDict(<<>>),
      JDict("from" :> JDict("country" :> JStr(<<"U", "S">>))),
      JDict("to" :> JDict("country" :> JNull)),
      JDict("package" :> JNull),
      JDict("package" :> JDict("weight" :> JDict("value" :> JNum(2)))) }

\* calculate_shipping
calculate_shipping ==
    /\ program = "ship"
    /\ Idle
    /\ \E is_json \in BOOLEAN : \E data \in PayloadInputs : \E carrier \in CarrierInputs :
        /\ request' = [route |-> "calculate_shipping", user |-> Anonymous,
                       is_json |-> is_json, data |-> data, carrier |-> carrier]
        /\ IF ~is_json
           THEN response' = jsonify([success |-> FALSE, message |-> Text("Request must be JSON")],
                                    400)
           ELSE LET result == calculate_shipping_fee_from_shipstation(data, carrier)
                IN IF "raised" \in DOMAIN result
                   THEN response' = Unhandled(result.raised)
                   ELSE IF result.success
                   THEN response' = jsonify([success |-> TRUE, fee |-> result.fee,
                                             details |-> result.details], 200)
                   ELSE response' = jsonify([success |-> FALSE,
                                             message |-> result.message], 500)
    /\ UNCHANGED <<program, users, trackings, now>>

InitShipping ==
    /\ program = "ship"
    /\ users = <<>>
    /\ trackings = <<>>
    /\ now = ClockJune[1]
    /\ request = NoRequest
    /\ response = NoResponse

NextShipping ==
    \/ send_response
    \/ calculate_shipping

SpecShipping == InitShipping /\ [][NextShipping]_vars

-----------------------------------------------------------------------------
(* UTCDateTime on its own: a value is bound and stored, loaded, and shown   *)

\* instants around the zone's two transitions of 2024 and in mid-summer
CodecInstants ==
    { DateTime(2024, 3, 10, 9, 59, 59, 999999), DateTime(2024, 3, 10, 10, 0, 0, 0),
      DateTime(2024, 11, 3, 8, 30, 0, 0), DateTime(2024, 11, 3, 9, 30, 0, 0),
      DateTime(2024, 6, 1, 7, 0, 0, 0), DateTime(2024, 6, 1, 6, 59, 59, 999999) }

\* the tzinfo a value may carry: UTC, the display zone's two offsets, +05:30
CodecOffsets == {0, PST, PDT, 19800}

\* the values handed to the column: every instant as an aware value under
\* every offset, and the same readings as naive values
CodecValues ==
    {[s |-> i.s + off, us |-> i.us, off |-> off] : i \in CodecInstants, off \in CodecOffsets}
    \cup CodecInstants

\* a Tracking is written with the value as its timestamp:
\* process_bind_param, then the DateTime column
StoreTimestamp ==
    /\ trackings = <<>>
    /\ \E value \in CodecValues :
        /\ request' = [route |-> "store", user |-> 1, value |-> value]
        /\ trackings' = <<[id |-> 1, user_id |-> 1,
                           tracking_number |-> <<"7", "0", "1">>,
                           timestamp |-> ColumnValue(value)]>>
    /\ UNCHANGED <<program, users, now, response>>

\* the Tracking is read back: process_result_value of the running program
LoadTimestamp ==
    /\ trackings # <<>>
    /\ response = NoResponse
    /\ response' = [status |-> 200, timestamp |-> LoadTracking(trackings[1]).timestamp]
    /\ UNCHANGED <<program, users, trackings, now, request>>

\* the loaded value is shown in the display zone, taken back to UTC and
\* shown again
ProjectTimestamp ==
    /\ "timestamp" \in DOMAIN response
    /\ "display" \notin DOMAIN response
    /\ LET display == AsDisplay(response.timestamp)
       IN response' = [status |-> 200, timestamp |-> response.timestamp,
                       display |-> display,
                       again |-> AsDisplay(AsUtc(display))]
    /\ UNCHANGED <<program, users, trackings, now, request>>

InitCodec ==
    /\ program \in {"app", "app2"}
    /\ users = (IF program = "app" THEN InitUsers ELSE InitUsers2)
    /\ trackings = <<>>
    /\ now = ClockJune[1]
    /\ request = NoRequest
    /\ response = NoResponse

NextCodec == StoreTimestamp \/ LoadTimestamp \/ ProjectTimestamp

SpecCodec == InitCodec /\ [][NextCodec]_vars

-----------------------------------------------------------------------------
(* What the claims speak of                                                *)

\* the display-zone local reading and local date of a stored row
LocalReading(row) == FromUtc(row.timestamp)
LocalDayOf(row) == DayNo(DateOf(LocalReading(row)))

\* the day a valid date string names
DayOfString(str) == DayNo(DateOf(strptime(str)))

ValidDate(str) == ~Missing(str) /\ strptime(str) # ValueError

RowsOf(user) == {r \in Rows : r.user_id = user}

NumbersIn(list) == {list[i].tracking_number : i \in 1..Len(list)}

\* the user's rows whose local date lies in [first, last]
InDays(user, first, last) ==
    {r \in RowsOf(user) : first <= LocalDayOf(r) /\ LocalDayOf(r) <= last}

NumbersOf(rows) == {r.tracking_number : r \in rows}

RangeAnswered(prog, route) ==
    /\ program = prog
    /\ request.route = route
    /\ request.user # Anonymous
    /\ ValidDate(request.start_date)
    /\ ValidDate(request.end_date)
    /\ DayOfString(request.start_date) <= DayOfString(request.end_date)

\* C1 (as claimed): app.py get_dropoffs_in_range with valid dates start <= end
\* returns exactly the current user's records whose local date lies in
\* [start, end], the last second of end's local day included.
C1_RangeExact ==
    RangeAnswered("app", "get_dropoffs_in_range") =>
        /\ response.status = 200
        /\ NumbersIn(response.trackings) =
              NumbersOf(InDays(request.user, DayOfString(request.start_date),
                               DayOfString(request.end_date)))

\* C2 (as claimed): app2.py get_dropoffs_in_range and export_dropoffs_csv with
\* valid dates start <= end return every record of the current user whose
\* local date lies in [start, end], and no other.
C2_RangeExact2 ==
    /\ RangeAnswered("app2", "get_dropoffs_in_range") =>
          /\ response.status = 200
          /\ NumbersIn(response.trackings) =
                NumbersOf(InDays(request.user, DayOfString(request.start_date),
                                 DayOfString(request.end_date)))
    /\ RangeAnswered("app2", "export_dropoffs_csv") =>
          LET expected == NumbersOf(InDays(request.user, DayOfString(request.start_date),
                                           DayOfString(request.end_date)))
          IN IF response.status = 200 THEN NumbersIn(response.rows) = expected
             ELSE expected = {}

\* the receipt_context a receipt view built, whatever it then did with it
ReceiptRoutes == {"get_tracking_details", "email_receipt_dashboard", "download_pdf_dashboard"}

HasReceipt ==
    /\ request.route \in ReceiptRoutes
    /\ \E f \in {"receiptData", "mailed", "receipt_context", "pdf"} : f \in DOMAIN response

Receipt ==
    IF "receiptData" \in DOMAIN response THEN response.receiptData
    ELSE IF "mailed" \in DOMAIN response THEN response.mailed
    ELSE IF "pdf" \in DOMAIN response THEN response.pdf
    ELSE response.receipt_context

\* the record the receipt was asked for
Selected == CHOOSE r \in Rows : r.id = request.tracking_id

\* C3 (as claimed): in app.py the receipt for record t lists exactly the
\* current user's records whose local date is t's local date, and
\* total_packages counts them.
C3_ReceiptDay ==
    (program = "app" /\ HasReceipt) =>
        LET same_day == InDays(request.user, LocalDayOf(Selected), LocalDayOf(Selected))
        IN /\ NumbersIn(Receipt.trackings_for_day) = NumbersOf(same_day)
           /\ Receipt.total_packages = Cardinality(same_day)

\* C4 (as claimed): in app2.py the receipt for record t lists exactly the
\* current user's records whose local date is t's local date; a record at or
\* after the next local midnight is never listed.
C4_ReceiptDay2 ==
    (program = "app2" /\ HasReceipt) =>
        LET same_day == InDays(request.user, LocalDayOf(Selected), LocalDayOf(Selected))
        IN NumbersIn(Receipt.trackings_for_day) = NumbersOf(same_day)

\* the admin view ran (the request passed @login_required and @admin_required)
AdminAnswered == request.route = "admin_dropoffs" /\ "dropoffs" \in DOMAIN response

IdsIn(list) == {list[i].id : i \in 1..Len(list)}

Given(str) == ~Missing(str)

\* at least one date is given and every given date is valid
AdminDatesValid ==
    /\ Given(request.start_date) \/ Given(request.end_date)
    /\ Given(request.start_date) => ValidDate(request.start_date)
    /\ Given(request.end_date) => ValidDate(request.end_date)

\* the row's local date passes the dates the request gives
InAdminDays(row) ==
    /\ Given(request.start_date) => DayOfString(request.start_date) <= LocalDayOf(row)
    /\ Given(request.end_date) => LocalDayOf(row) <= DayOfString(request.end_date)

\* str contains sub, character for character
Contains(str, sub) ==
    \E i \in 0..(Len(str) - Len(sub)) : SubSeq(str, i + 1, i + Len(sub)) = sub

\* some window of str agrees with sub where letters are compared without case
\* and an underscore in sub agrees with any character
ContainsPattern(str, sub) ==
    \E i \in 0..(Len(str) - Len(sub)) :
        \A k \in 1..Len(sub) : sub[k] = "_" \/ Lower(str[i + k]) = Lower(sub[k])

PercentFree(str) == \A k \in 1..Len(str) : str[k] # "%"

\* the search string as the view uses it
SearchString == strip(request.search_user)

AtMidnightOf(row, day) ==
    LocalReading(row).s = day * SecondsPerDay /\ LocalReading(row).us = 0

\* the row is stamped one microsecond before that midnight
JustBeforeMidnightOf(row, day) ==
    AtMidnightOf([row EXCEPT !.timestamp = PlusTimedelta(row.timestamp, 0, 0, 1)], day)

\* the tracking numbers a range route of the signed-in user answered with
Listed ==
    IF "trackings" \in DOMAIN response THEN NumbersIn(response.trackings)
    ELSE IF "rows" \in DOMAIN response THEN NumbersIn(response.rows)
    ELSE {}

StartBoundary(rows, day, listed) ==
    \A r \in rows : /\ AtMidnightOf(r, day) => r \in listed
                    /\ JustBeforeMidnightOf(r, day) => r \notin listed

InWindow(user, from, to) ==
    {r \in RowsOf(user) : AtOrBefore(from, r.timestamp) /\ Before(r.timestamp, to)}

SingleDay(date_str) ==
    /\ request.route = "get_dropoffs_in_range"
    /\ request.user # Anonymous
    /\ request.start_date = date_str /\ request.end_date = date_str

\* C7 (as claimed): for start = end = 2024-03-10 get_dropoffs_in_range selects
\* the instants from 2024-03-10T08:00:00Z up to but not including
\* 2024-03-11T07:00:00Z (23 hours); for the fall-back day 2024-11-03 the
\* window is the 25 hours from 2024-11-03T07:00:00Z.
C7_DstWindow ==
    /\ SingleDay(D_0310) =>
          Listed = NumbersOf(InWindow(request.user, DateTime(2024, 3, 10, 8, 0, 0, 0),
                                      DateTime(2024, 3, 11, 7, 0, 0, 0)))
    /\ SingleDay(D_1103) =>
          Listed = NumbersOf(InWindow(request.user, DateTime(2024, 11, 3, 7, 0, 0, 0),
                                      DateTime(2024, 11, 4, 8, 0, 0, 0)))

\* the dashboard view ran
DashboardAnswered ==
    request.route = "dashboard" /\ "grouped_trackings" \in DOMAIN response

Groups == response.grouped_trackings

\* the stored row a listed record stands for
RowOfId(id) == CHOOSE r \in Rows : r.id = id

\* the places (group, position) at which the dashboard lists the record id
PlacesOf(id) ==
    {p \in (1..Len(Groups)) \X (1..Len(response.all_user_trackings)) :
        /\ p[2] <= Len(Groups[p[1]].trackings)
        /\ Groups[p[1]].trackings[p[2]].id = id}

\* the position of id in the order the query returned the records
SuppliedAt(id) ==
    CHOOSE i \in 1..Len(response.all_user_trackings) : response.all_user_trackings[i] = id

RECURSIVE SumCounts(_)
SumCounts(groups) ==
    IF groups = <<>> THEN 0
    ELSE groups[1].package_count + SumCounts(Tail(groups))

\* C8: the dashboard's groups come by local date strictly descending, and in
\* each group the records come by timestamp ascending, whatever order the
\* store returned them in.
C8_DashboardOrder ==
    DashboardAnswered =>
        /\ \A g, h \in 1..Len(Groups) :
              g < h => DayOfString(Groups[g].date) > DayOfString(Groups[h].date)
        /\ \A g \in 1..Len(Groups) : \A i, j \in 1..Len(Groups[g].trackings) :
              i < j => AtOrBefore(RowOfId(Groups[g].trackings[i].id).timestamp,
                                  RowOfId(Groups[g].trackings[j].id).timestamp)

\* C8 witness: a group of two records with different timestamps which the
\* query returned later one first and the group lists earlier one first
C8_Witness ==
    /\ DashboardAnswered
    /\ \E g \in 1..Len(Groups) :
          /\ Len(Groups[g].trackings) = 2
          /\ Before(RowOfId(Groups[g].trackings[1].id).timestamp,
                    RowOfId(Groups[g].trackings[2].id).timestamp)
          /\ SuppliedAt(Groups[g].trackings[2].id) < SuppliedAt(Groups[g].trackings[1].id)

\* C9: every record of the current user is listed in exactly one place, in the
\* group whose date is the record's local date; the package_count values sum
\* to total_package_count; the records at 2024-06-01T06:59:59Z and
\* 2024-06-01T07:00:01Z are in the groups 2024-05-31 and 2024-06-01.
C9_DashboardPartition ==
    DashboardAnswered =>
        /\ \A r \in RowsOf(request.user) :
              /\ Cardinality(PlacesOf(r.id)) = 1
              /\ \A p \in PlacesOf(r.id) : DayOfString(Groups[p[1]].date) = LocalDayOf(r)
        /\ \A g \in 1..Len(Groups) :
              /\ IdsIn(Groups[g].trackings) \subseteq {r.id : r \in RowsOf(request.user)}
              /\ Groups[g].package_count = Len(Groups[g].trackings)
        /\ SumCounts(Groups) = response.total_package_count
        /\ response.total_package_count = Cardinality(RowsOf(request.user))
        /\ \A r \in RowsOf(request.user) : \A p \in PlacesOf(r.id) :
              /\ r.timestamp = DateTime(2024, 6, 1, 6, 59, 59, 0) =>
                    Groups[p[1]].date = <<"2", "0", "2", "4", "-", "0", "5", "-", "3", "1">>
              /\ r.timestamp = DateTime(2024, 6, 1, 7, 0, 1, 0) =>
                    Groups[p[1]].date = <<"2", "0", "2", "4", "-", "0", "6", "-", "0", "1">>
              /\ LocalReading(r).s % SecondsPerDay = 0 /\ LocalReading(r).us = 0 =>
                    DayOfString(Groups[p[1]].date) * SecondsPerDay = LocalReading(r).s

\* C9 witness: a dashboard of the two records one second either side of the
\* local midnight 2024-06-01T07:00:00Z, in two groups
C9_Witness ==
    /\ DashboardAnswered
    /\ Len(Groups) = 2
    /\ \E r \in RowsOf(request.user) : r.timestamp = DateTime(2024, 6, 1, 6, 59, 59, 0)
    /\ \E r \in RowsOf(request.user) : r.timestamp = DateTime(2024, 6, 1, 7, 0, 1, 0)

\* C10: two records of a group with equal timestamps are listed in the
\* order in which the query supplied them.
C10_StableWithinGroup ==
    DashboardAnswered =>
        \A g \in 1..Len(Groups) : \A i, j \in 1..Len(Groups[g].trackings) :
            (/\ i < j
             /\ RowOfId(Groups[g].trackings[i].id).timestamp =
                   RowOfId(Groups[g].trackings[j].id).timestamp) =>
                SuppliedAt(Groups[g].trackings[i].id) < SuppliedAt(Groups[g].trackings[j].id)

\* C10 witness: a group of two records with the same timestamp, the record
\* stored second supplied first
C10_Witness ==
    /\ DashboardAnswered
    /\ \E g \in 1..Len(Groups) :
          /\ Len(Groups[g].trackings) = 2
          /\ RowOfId(Groups[g].trackings[1].id).timestamp =
                RowOfId(Groups[g].trackings[2].id).timestamp
          /\ Groups[g].trackings[1].id > Groups[g].trackings[2].id

\* the ids of the dashboard's output read as one sequence: the groups in
\* output order, the records of each group in the order the group lists them
RECURSIVE FlatIds(_)
FlatIds(groups) ==
    IF groups = <<>> THEN <<>>
    ELSE [i \in 1..Len(groups[1].trackings) |-> groups[1].trackings[i].id]
            \o FlatIds(Tail(groups))

\* the Tracking objects of that sequence, and their buckets
Flattened == [i \in 1..Len(FlatIds(Groups)) |-> LoadTracking(RowOfId(FlatIds(Groups)[i]))]
Rebucketed == dashboard_data(Flattened)

\* C11: bucketing the dashboard's flattened output again yields the same
\* groups: the same dates in the same order, and in each group the same
\* records in the same order.
C11_Idempotent ==
    DashboardAnswered =>
        /\ Len(Rebucketed) = Len(Groups)
        /\ \A g \in 1..Len(Groups) :
              /\ Rebucketed[g].date = Groups[g].date
              /\ Rebucketed[g].package_count = Groups[g].package_count
              /\ Rebucketed[g].trackings = Groups[g].trackings

\* C11 witness: a dashboard of two records whose flattened output is not the
\* order in which the query supplied them
C11_Witness ==
    /\ DashboardAnswered
    /\ Len(response.all_user_trackings) = 2
    /\ FlatIds(Groups) # response.all_user_trackings

\* the instant an aware value denotes, and the instant a value handed to the
\* column stands for (a naive one is a UTC reading)
InstantOf(aware) == [s |-> aware.s - aware.off, us |-> aware.us]
MeantInstant(value) == IF "off" \in DOMAIN value THEN InstantOf(value) ELSE value

\* C12: a value stored through UTCDateTime is kept as the naive UTC reading
\* of its instant (a naive value being taken as UTC) and loads as an aware
\* value of the same instant; shown in the display zone, taken back to UTC
\* and shown again, it reads the same local date and time.
C12_RoundTrip ==
    /\ request.route = "store" =>
          \A i \in 1..Len(trackings) : trackings[i].timestamp = MeantInstant(request.value)
    /\ (request.route = "store" /\ "timestamp" \in DOMAIN response) =>
          /\ "off" \in DOMAIN response.timestamp
          /\ InstantOf(response.timestamp) = MeantInstant(request.value)
    /\ (request.route = "store" /\ "again" \in DOMAIN response) =>
          /\ response.again.s = response.display.s
          /\ response.again.us = response.display.us
          /\ InstantOf(response.display) = MeantInstant(request.value)

\* C12 witness: the value 2024-11-03 01:30 PST (the second 01:30 of the
\* fall-back day), given under the offset +05:30, stored, loaded and shown
C12_Witness ==
    /\ request.route = "store"
    /\ "off" \in DOMAIN request.value
    /\ request.value.off = 19800
    /\ "again" \in DOMAIN response
    /\ response.again = [s |-> DateTime(2024, 11, 3, 1, 30, 0, 0).s, us |-> 0, off |-> PST]

\* the form values the claim calls missing, empty or not parseable
NotADate == {None, EmptyString, D_0230, D_1301, D_Slashes}

\* the next state answers a range search of the signed-in user
RangeSearched ==
    /\ request'.route = "get_dropoffs_in_range"
    /\ request'.user # Anonymous

\* C13: get_dropoffs_in_range given a start_date or end_date that is missing,
\* empty or no date answers 400 with success = false and nothing else (no
\* tracking record), and leaves the store as it was.
C13_InvalidDates ==
    [][(RangeSearched /\ (request'.start_date \in NotADate \/ request'.end_date \in NotADate)) =>
          /\ response'.status = 400
          /\ response'.success = FALSE
          /\ DOMAIN response' = {"status", "success"}
          /\ trackings' = trackings
          /\ users' = users]_vars

\* C13 witness: a user with a record of 2024-03-10 searched from 2024-03-10
\* to 2024-02-30 and was answered 400
C13_Witness ==
    /\ request.route = "get_dropoffs_in_range"
    /\ request.user # Anonymous
    /\ request.start_date = D_0310 /\ request.end_date = D_0230
    /\ RowsOf(request.user) # {}
    /\ response.status = 400

\* a range search of the signed-in user with two valid dates, the first after
\* the second
Unordered ==
    /\ request.route = "get_dropoffs_in_range"
    /\ request.user # Anonymous
    /\ ValidDate(request.start_date)
    /\ ValidDate(request.end_date)
    /\ DayOfString(request.start_date) > DayOfString(request.end_date)

RowsAfter == {trackings'[i] : i \in 1..Len(trackings')}

\* C15: a record's timestamp is set when add_tracking creates the record (to
\* the time of that request) and no request changes it afterwards;
\* edit_tracking changes nothing of the table but one record's
\* tracking_number.
C15_TimestampFixed ==
    [][/\ \A r \in Rows : \A q \in RowsAfter :
             q.id = r.id => (q.timestamp = r.timestamp /\ q.user_id = r.user_id)
       /\ \A q \in RowsAfter :
             (\A r \in Rows : r.id # q.id) =>
                 /\ request'.route = "add_tracking"
                 /\ q.timestamp = now
       /\ (request'.route = "edit_tracking" /\ "tracking_id" \in DOMAIN request') =>
             /\ Len(trackings') = Len(trackings)
             /\ \A i \in 1..Len(trackings) :
                   /\ trackings'[i].id = trackings[i].id
                   /\ trackings'[i].id # request'.tracking_id => trackings'[i] = trackings[i]]_vars

\* C15 witness: an admin's edit has given a record stamped at an earlier
\* clock reading a new tracking_number
C15_Witness ==
    /\ request.route = "edit_tracking"
    /\ response = Redirect("admin_users", "success")
    /\ \E r \in Rows : /\ r.id = request.tracking_id
                       /\ r.tracking_number = request.tracking_number
                       /\ r.timestamp = ClockJune[1]
    /\ now = ClockJune[2]


\* C18: in app.py, from an empty store and with requests served one at a
\* time, no user ever owns two records with the same tracking_number, and an
\* add_tracking whose number the signed-in user already has answers with a
\* warning and leaves the table as it was.
OwnedTwice ==
    \E i, j \in 1..Len(trackings) :
        /\ i # j
        /\ trackings[i].user_id = trackings[j].user_id
        /\ trackings[i].tracking_number = trackings[j].tracking_number
AddOfOwnedNumber ==
    /\ request'.route = "add_tracking"
    /\ request'.user # Anonymous
    /\ \E r \in Rows : /\ r.user_id = request'.user
                       /\ r.tracking_number = request'.tracking_number
C18_OneRecordPerNumber ==
    /\ [](~OwnedTwice)
    /\ [][AddOfOwnedNumber =>
            /\ trackings' = trackings
            /\ response' = Redirect("dashboard", "warning")]_vars
\* two users hold the same number, the second having just added it
C18_Witness ==
    /\ request.route = "add_tracking"
    /\ response = Redirect("dashboard", "success")
    /\ \E r, q \in Rows : /\ r.user_id # q.user_id
                          /\ q.user_id = request.user
                          /\ r.tracking_number = q.tracking_number
                          /\ q.tracking_number = request.tracking_number


\* C16: a request to an admin route by a client without a session or by a
\* user whose is_admin is false changes no user and no tracking row and is
\* answered with a redirect that carries no data; a user's is_admin goes from
\* false to true only in a toggle_admin_status request naming that user and
\* made by another user who is an admin when it is served, and a new user is
\* no admin.
Denied ==
    /\ request'.route \in AdminRoutes
    /\ request'.user = Anonymous \/ ~users[request'.user].is_admin
Promoted == {u \in DOMAIN users \cap DOMAIN users' :
                ~users[u].is_admin /\ users'[u].is_admin}
C16_AdminOnly ==
    [][/\ Denied =>
            /\ users' = users
            /\ trackings' = trackings
            /\ response' \in {Redirect("login", "info"), Redirect("dashboard", "danger")}
       /\ \A u \in Promoted :
            /\ request'.route = "toggle_admin_status"
            /\ request'.user_id = u
            /\ request'.user # u
            /\ request'.user \in DOMAIN users
            /\ users[request'.user].is_admin
       /\ \A u \in DOMAIN users' \ DOMAIN users : ~users'[u].is_admin]_vars
\* a user who was promoted, and later demoted, asks for a deletion and is
\* turned away while another user holds the admin role
C16_Witness ==
    /\ request.route = "delete_user"
    /\ request.user = 2
    /\ ~users[2].is_admin
    /\ response = Redirect("dashboard", "danger")
    /\ 3 \in DOMAIN users /\ users[3].is_admin

\* C20: with requests served one at a time, a step taken while some user is
\* an admin leaves some user an admin.
Admins == {u \in DOMAIN users : users[u].is_admin}
C20_AdminRemains ==
    [][Admins # {} => {u \in DOMAIN users' : users'[u].is_admin} # {}]_vars
\* the first admin has been deleted by a user they promoted
C20_Witness ==
    /\ request.route = "delete_user"
    /\ response = Redirect("admin_users", "success")
    /\ request.user_id = 1
    /\ 1 \notin DOMAIN users
    /\ Admins = {request.user}

\* C17: what dashboard, get_dropoffs_in_range and the three receipt views
\* answer a user is a function of the request and of that user's own records.
\* The answers a request may get from the records `own` (one answer per
\* order the store may return tied rows in, and per outcome of the mail or
\* PDF step); nothing below reads the table itself:
RangeAnswersFrom(own, start_date_str, end_date_str) ==
    IF Missing(start_date_str) \/ Missing(end_date_str) THEN {BadRequest}
    ELSE LET bounds == IF program = "app"
                       THEN RangeBounds(start_date_str, end_date_str)
                       ELSE app2_RangeBounds(start_date_str, end_date_str)
         IN IF bounds = ValueError THEN {BadRequest}
            ELSE {[status |-> 200, success |-> TRUE,
                   trackings |-> RangeResults(q),
                   total_packages |-> Len(q),
                   start_date |-> start_date_str,
                   end_date |-> end_date_str] :
                      q \in Ascending({r \in own : /\ TimestampGe(r, bounds.start_date_utc)
                                                   /\ TimestampLe(r, bounds.end_date_utc)})}

ReceiptAnswersFrom(own, email, route, tracking_id) ==
    LET found == {r \in own : r.id = tracking_id}
    IN IF found = {}
       THEN {IF program = "app" THEN NotFound ELSE app2_NotFound(route)}
       ELSE LET selected_tracking == CHOOSE r \in found : TRUE
                day == IF program = "app" THEN DayBounds(selected_tracking)
                       ELSE app2_DayBounds(selected_tracking)
                same_day == {r \in own : /\ TimestampGe(r, day.start_of_day_utc)
                                         /\ TimestampLe(r, day.end_of_day_utc)}
            IN UNION {IF q = <<>>
                      THEN {IF program = "app" THEN NotFound ELSE app2_NoneForDate(route)}
                      ELSE IF program = "app"
                      THEN {ReceiptAnswer(route, ReceiptContext(day, q), to, ok) :
                               to \in Recipients, ok \in BOOLEAN}
                      ELSE {app2_ReceiptAnswer(route, ReceiptContext(day, q), email, ok) :
                               ok \in BOOLEAN}
                      : q \in Ascending(same_day)}

DashboardAnswersFrom(own) ==
    {LET all_user_trackings == [i \in 1..Len(query) |-> LoadTracking(query[i])]
     IN [status |-> 200,
         grouped_trackings |-> dashboard_data(all_user_trackings),
         total_package_count |-> Len(all_user_trackings),
         all_user_trackings |-> [i \in 1..Len(query) |-> query[i].id]]
     : query \in Descending(own)}

UserRoutes == ReceiptRoutes \cup {"dashboard", "get_dropoffs_in_range"}

\* a view answered a signed-in user
UserAnswered == request.route \in UserRoutes /\ request.user # Anonymous

\* the answers the request at hand may get from the records `own`
AnswersFrom(own) ==
    IF request.route = "dashboard" THEN DashboardAnswersFrom(own)
    ELSE IF request.route = "get_dropoffs_in_range"
    THEN RangeAnswersFrom(own, request.start_date, request.end_date)
    ELSE ReceiptAnswersFrom(own,
                            IF program = "app2" THEN users[request.user].email ELSE None,
                            request.route, request.tracking_id)

\* the records a response lists
ListedRecords ==
    IF "trackings" \in DOMAIN response THEN response.trackings
    ELSE IF HasReceipt THEN Receipt.trackings_for_day
    ELSE <<>>

\* the id asked for is that of another user's record
ForeignId ==
    /\ request.route \in ReceiptRoutes
    /\ \E r \in Rows : r.id = request.tracking_id /\ r.user_id # request.user

\* The answer given is one the request gets from the user's own records, so
\* that stores with the same records of this user answer alike; it lists no
\* more records than the user owns, and only numbers and ids of those; the id
\* of another user's record is answered as not found.
C17_TenantIsolation ==
    UserAnswered =>
        /\ response \in AnswersFrom(RowsOf(request.user))
        /\ Len(ListedRecords) <= Cardinality(RowsOf(request.user))
        /\ NumbersIn(ListedRecords) \subseteq NumbersOf(RowsOf(request.user))
        /\ DashboardAnswered =>
              \A i \in 1..Len(response.all_user_trackings) :
                  RowOfId(response.all_user_trackings[i]).user_id = request.user
        /\ ForeignId =>
              response = (IF program = "app" \/ request.route = "get_tracking_details"
                          THEN NotFound ELSE Redirect("dashboard", "danger"))
\* two users hold the same number on the same local day, and the range search
\* of one of them lists one record
C17_Witness ==
    /\ request.route = "get_dropoffs_in_range"
    /\ request.user # Anonymous
    /\ response.status = 200
    /\ response.total_packages = 1
    /\ \E r \in RowsOf(request.user) : \E q \in Rows :
          /\ q.user_id # r.user_id
          /\ q.tracking_number = r.tracking_number
          /\ LocalDayOf(q) = LocalDayOf(r)


\* C19 (as claimed): when two add_tracking requests of one user with one
\* number are served at once, the existence query and the insert-and-commit
\* of each being separate steps, at most one record with that number comes to
\* exist for that user.
C19_AtMostOneRecord ==
    \A w, v \in Workers :
        (/\ w # v
         /\ request[w].route = "add_tracking" /\ request[v].route = "add_tracking"
         /\ request[w].user = request[v].user
         /\ request[w].tracking_number = request[v].tracking_number)
        => Cardinality({i \in 1..Len(trackings) :
                           /\ trackings[i].user_id = request[w].user
                           /\ trackings[i].tracking_number = request[w].tracking_number}) <= 1

\* C21: toggle_admin_status and delete_user naming the admin who asks change
\* no user and no tracking row (the admin stays an admin and keeps their
\* trackings) and are answered by the redirect with a warning.
OnOwnAccount ==
    /\ request'.route \in {"toggle_admin_status", "delete_user"}
    /\ "user_id" \in DOMAIN request'
    /\ request'.user_id = request'.user
C21_NotOnOwnAccount ==
    [][OnOwnAccount =>
          /\ users' = users
          /\ trackings' = trackings
          /\ users'[request'.user].is_admin
          /\ response' = Redirect("admin_users", "warning")]_vars
\* an admin who owns a tracking has asked to lose the admin role
C21_Witness ==
    /\ request.route = "toggle_admin_status"
    /\ response = Redirect("admin_users", "warning")
    /\ request.user_id = request.user
    /\ users[request.user].is_admin
    /\ RowsOf(request.user) # {}

\* C22: every tracking row's user_id is the id of a user; a delete_user that
\* goes through removes the named user and exactly that user's rows in one
\* step, the other users and the other rows staying as they were, in order.
DeletedUser ==
    /\ request'.route = "delete_user"
    /\ response' = Redirect("admin_users", "success")
C22_DeleteUserCascade ==
    /\ [](\A r \in Rows : r.user_id \in DOMAIN users)
    /\ [][DeletedUser =>
            /\ request'.user_id \in DOMAIN users
            /\ DOMAIN users' = DOMAIN users \ {request'.user_id}
            /\ \A u \in DOMAIN users' : users'[u] = users[u]
            /\ trackings' = SelectSeq(trackings, LAMBDA r : r.user_id # request'.user_id)
            /\ \A i \in 1..Len(trackings') : trackings'[i].user_id \in DOMAIN users']_vars
\* a user who owned a record has been deleted while the admin's record stays
C22_Witness ==
    /\ request.route = "delete_user"
    /\ response = Redirect("admin_users", "success")
    /\ request.user_id \notin DOMAIN users
    /\ Len(trackings) = 1
    /\ trackings[1].user_id = request.user
    /\ trackings[1].id = 2

\* C24: an edit_tracking POST by an admin with an empty number, or with a
\* number that a different record of any user carries, leaves the table as
\* it was and shows the form again; any other POST on an existing record
\* sets that record's tracking_number, also when the number is the one the
\* record has.
EditPosted ==
    /\ request'.route = "edit_tracking"
    /\ "method" \in DOMAIN request'
    /\ request'.method = "POST"
    /\ \E r \in Rows : r.id = request'.tracking_id
C24_EditRejections ==
    [][EditPosted =>
          IF \/ Missing(request'.tracking_number)
             \/ \E r \in Rows : /\ r.id # request'.tracking_id
                                /\ r.tracking_number = request'.tracking_number
          THEN /\ trackings' = trackings
               /\ response'.status = 200
               /\ response'.flash \in {"danger", "warning"}
          ELSE /\ response' = Redirect("admin_users", "success")
               /\ Len(trackings') = Len(trackings)
               /\ \A i \in 1..Len(trackings) :
                     trackings'[i] =
                        IF trackings[i].id = request'.tracking_id
                        THEN [trackings[i] EXCEPT !.tracking_number = request'.tracking_number]
                        ELSE trackings[i]]_vars
\* the number a record already has was submitted for it and accepted, while
\* another user's record has another number
C24_Witness ==
    /\ request.route = "edit_tracking"
    /\ response = Redirect("admin_users", "success")
    /\ now = ClockJune[1]
    /\ Len(trackings) = 2
    /\ \E r \in Rows : r.id = request.tracking_id /\ r.tracking_number = request.tracking_number

\* C27 (as claimed): in app2.py every stored tracking_number is a non-empty
\* string of at most 12 decimal digits, and the record an add_tracking
\* request creates carries the input without its non-digits, cut to its last
\* 12 digits.
C27_StoredNumbers ==
    /\ \A r \in Rows :
          /\ Len(r.tracking_number) >= 1
          /\ Len(r.tracking_number) <= StoredDigits
          /\ \A i \in 1..Len(r.tracking_number) : IsDigit(r.tracking_number[i])
    /\ (request.route = "add_tracking" /\ response = Redirect("dashboard", "success")) =>
          /\ trackings[Len(trackings)].user_id = request.user
          /\ trackings[Len(trackings)].tracking_number =
                Last12(CleanedNumber(request.tracking_number))

\* C23: delete_tracking removes the named record when the signed-in user
\* owns it, and nothing else; naming an id that no record has, or the id of
\* another user's record (the requester being an admin or not), leaves the
\* table as it was.
DeleteAsked == request'.route = "delete_tracking" /\ request'.user # Anonymous
C23_DeleteOwnOnly ==
    [][DeleteAsked =>
          IF \E r \in Rows : r.id = request'.tracking_id /\ r.user_id = request'.user
          THEN /\ trackings' = SelectSeq(trackings, LAMBDA r : r.id # request'.tracking_id)
               /\ Len(trackings') = Len(trackings) - 1
               /\ response' = Redirect("dashboard", "success")
          ELSE /\ trackings' = trackings
               /\ response' = Redirect("dashboard", "danger")]_vars
\* the admin of app.py named the other user's record and it is still there
C23_Witness ==
    /\ program = "app"
    /\ request.route = "delete_tracking"
    /\ users[request.user].is_admin
    /\ response = Redirect("dashboard", "danger")
    /\ \E r \in Rows : r.id = request.tracking_id /\ r.user_id # request.user

\* C25: a receipt route asked for a record of the signed-in user finds that
\* record inside the day range it computes, so the receipt lists it and the
\* answer 'no records for this date' is never given.
OwnReceiptAsked ==
    /\ request.route \in ReceiptRoutes
    /\ request.user # Anonymous
    /\ \E r \in Rows : r.id = request.tracking_id /\ r.user_id = request.user
NoneForDateAnswer ==
    IF program = "app" THEN NotFound ELSE app2_NoneForDate(request.route)
C25_ReceiptHasRecord ==
    OwnReceiptAsked =>
        LET day == IF program = "app" THEN DayBounds(Selected) ELSE app2_DayBounds(Selected)
        IN /\ Selected \in SameDayRows(request.user, day)
           /\ response # NoneForDateAnswer
           /\ HasReceipt
           /\ Selected.tracking_number \in NumbersIn(Receipt.trackings_for_day)
\* the record was stamped half a second before the local midnight that ends
\* the 23-hour day 2024-03-10
C25_Witness ==
    /\ OwnReceiptAsked
    /\ HasReceipt
    /\ Selected.timestamp = ClockSpringDay[3]

\* C26 (as claimed): every group the dashboard shows has as reference_id the
\* id of one of its records, and the receipt get_tracking_details builds for
\* that id in the same store has the group's date as receipt_date and the
\* group's package_count as total_packages.
ReceiptDayOf(id) ==
    IF program = "app" THEN DayBounds(RowOfId(id)) ELSE app2_DayBounds(RowOfId(id))
C26_DashboardReceiptAgree ==
    DashboardAnswered =>
        \A g \in 1..Len(Groups) :
            LET day == ReceiptDayOf(Groups[g].reference_id)
            IN /\ Groups[g].reference_id \in IdsIn(Groups[g].trackings)
               /\ strftime_date(day.receipt_date) = Groups[g].date
               /\ Cardinality(SameDayRows(request.user, day)) = Groups[g].package_count

\* C28: no two users have the same phone_number; a register request that is
\* not a complete POST of a visitor with a phone number nobody has (and, in
\* app2.py, an address nobody has) leaves the users as they were, passwords
\* included; any other adds one user with the phone number and the password
\* given, in app.py with is_admin false, and changes no other user.
RegisterAsked == request'.route = "register"
RegisterRefused ==
    \/ request'.user # Anonymous
    \/ request'.method = "GET"
    \/ Missing(request'.phone_number)
    \/ Missing(request'.password)
    \/ \E u \in DOMAIN users : users[u].phone_number = request'.phone_number
    \/ /\ program = "app2"
       /\ \/ Missing(request'.email)
          \/ \E u \in DOMAIN users : users[u].email = request'.email
C28_RegisterUnique ==
    /\ [](\A u, v \in DOMAIN users :
              users[u].phone_number = users[v].phone_number => u = v)
    /\ [][RegisterAsked =>
            IF RegisterRefused
            THEN users' = users
            ELSE /\ \A u \in DOMAIN users : u \in DOMAIN users' /\ users'[u] = users[u]
                 /\ \E n \in DOMAIN users' \ DOMAIN users :
                       /\ DOMAIN users' = DOMAIN users \cup {n}
                       /\ users'[n].phone_number = request'.phone_number
                       /\ users'[n].password_hash =
                             generate_password_hash(request'.password)
                       /\ program = "app" => ~users'[n].is_admin]_vars
\* a visitor has posted the phone number of an existing user, who keeps the
\* password they had
C28_Witness ==
    /\ request.route = "register"
    /\ response = Redirect("login", "warning")
    /\ \E u \in DOMAIN users :
          /\ users[u].phone_number = request.phone_number
          /\ users[u].password_hash # generate_password_hash(request.password)
    /\ Cardinality(DOMAIN users) = 3

\* C29: admin_dropoffs given a start_date or an end_date that strptime
\* rejects answers 200 with every record of the users the search matches (of
\* all users without a search), whatever the other date says, and with both
\* dates echoed back empty.
UnparsedDate(str) == ~Missing(str) /\ strptime_ymd(str) = ValueError
AdminDropoffsAsked ==
    /\ request.route = "admin_dropoffs"
    /\ "start_date" \in DOMAIN request
InvalidDateAnswer ==
    /\ response.status = 200
    /\ {response.dropoffs[i].id : i \in 1..Len(response.dropoffs)} =
          {r.id : r \in JoinedRows(strip(request.search_user))}
    /\ response.start_date = <<>>
    /\ response.end_date = <<>>
C29_InvalidDateNoFilter ==
    (/\ AdminDropoffsAsked
     /\ response # NoResponse
     /\ UnparsedDate(request.start_date) \/ UnparsedDate(request.end_date))
    => InvalidDateAnswer

\* C30: calculate_shipping answers a request that is not JSON 400; it answers
\* 200 with success and fee = shipmentCost + otherCost of the first rate
\* (otherCost 0 when absent) exactly when the carrier sent a non-empty list
\* whose first rate has a shipmentCost; every other request is answered 500
\* with success false and a message that is text, no exception escaping.
FirstRateHasCost ==
    /\ request.carrier.kind = "json"
    /\ request.carrier.body.t = "list"
    /\ request.carrier.body.v # <<>>
    /\ request.carrier.body.v[1].t = "dict"
    /\ Get(request.carrier.body.v[1], "shipmentCost", JNull).t = "number"
    /\ Get(request.carrier.body.v[1], "otherCost", JNum(0)).t = "number"
ShippingAnswered == request.route = "calculate_shipping" /\ response # NoResponse
C30_ShippingAnswers ==
    ShippingAnswered =>
        IF ~request.is_json
        THEN response.status = 400
        ELSE IF FirstRateHasCost
        THEN /\ response.status = 200
             /\ "json" \in DOMAIN response
             /\ response.json.success
             /\ response.json.fee =
                   Get(request.carrier.body.v[1], "shipmentCost", JNull).v +
                   Get(request.carrier.body.v[1], "otherCost", JNum(0)).v
        ELSE /\ response.status = 500
             /\ "json" \in DOMAIN response
             /\ ~response.json.success
             /\ "text" \in DOMAIN response.json.message

=============================================================================
